---- MODULE Spec2Model ----
(***************************************************************************)
(* Model of the YAML schema validator of src/validator.py: the command     *)
(* line entry point main, the schema path resolver infer_schema_path, the  *)
(* class YamlSchemaValidator (load_json_schema, load_yaml, validate,       *)
(* validate_and_report) and the part of jsonschema.validate the validator  *)
(* relies on (check_schema, iter_errors, best_match) for schemas built     *)
(* from the keywords type, required and properties, the combinators allOf, *)
(* anyOf, oneOf and not, and the boolean schemas.  The CI scripts of        *)
(* src/scripts that compare performance results, scan a docker image and   *)
(* post merge-request comments are modelled in specifications of their own. *)
(***************************************************************************)
EXTENDS Integers, Sequences, FiniteSets, TLC

VARIABLES
    pc,           \* position of the run / of the client of the validator
    yaml_file,    \* main's yaml_file argument, self.yaml_file: path components
    schema_file,  \* main's schema_file argument (NoPath when not given)
    schema_path,  \* main's local schema_path
    schema,       \* self.schema
    data,         \* self.data
    read,         \* how the latest read of the document file went ("" before)
    result,       \* what validate found in the current or latest call
    prev,         \* what validate found in the call before the latest
    ret,          \* what the latest method call returned
    out,          \* lines printed by the current or latest call
    exitStatus,   \* status the process ended with (-1 while it runs)
    stages,       \* the stages the current or latest call has run, in order
    opened,       \* the files the current or latest call has opened, in order
    validators,   \* the validator objects of a client that holds several
    tieBreak,     \* the installed jsonschema: how best_match orders sibling
                  \* errors and whether it always goes into a context
    baseline,     \* ci_compare_performance: the baseline performance data
    current,      \* ci_compare_performance: the current performance data
    rounding,     \* sign of the floating-point error of a percent change
                  \* computed from times that are no binary fractions
    comparison,   \* what compare_metrics returned
    comment,      \* the comment a ci_post_*_comment script has created
    inspect_data, \* ci_docker_security_scan: the parsed docker inspect output
    results,      \* what analyze_docker_image returned
    script,       \* the ci_post_*_comment script that runs
    environ,      \* os.environ of that script
    sent          \* the HTTP requests that script has sent, in order

\* the state of the CI scripts
ciVars == <<baseline, current, rounding, comparison, comment, inspect_data,
            results, script, environ, sent>>

\* the state of the validator, but for pc, out and exitStatus
validatorVars == <<yaml_file, schema_file, schema_path, schema, data, read, result,
                   prev, ret, stages, opened, validators, tieBreak>>

vars == <<pc, yaml_file, schema_file, schema_path, schema, data, read, result,
          prev, ret, out, exitStatus, stages, opened, validators, tieBreak,
          ciVars>>

\* no CI script runs
CiIdle ==
    /\ baseline = "idle" /\ current = "idle" /\ rounding = 0
    /\ comparison = "idle" /\ comment = "idle"
    /\ inspect_data = "idle" /\ results = "idle"
    /\ script = "idle" /\ environ = "idle" /\ sent = <<>>

----------------------------------------------------------------------------
(* Bounds of the model *)

\* longest document path, in components
MaxParts == 3

----------------------------------------------------------------------------
(* Parsed YAML values: what yaml.safe_load returns.  A number carries twice *)
(* its value in n2, so that 3.5 is representable: 3 is int 6, 3.5 is float  *)
(* 7, 3.0 is float 6.                                                       *)

Value(t, b, n2, s, keys, vals) ==
    [t |-> t, b |-> b, n2 |-> n2, s |-> s, keys |-> keys, vals |-> vals]

VNull == Value("null", FALSE, 0, "", <<>>, <<>>)
VBool(b) == Value("bool", b, 0, "", <<>>, <<>>)
VInt(n) == Value("int", FALSE, 2 * n, "", <<>>, <<>>)
VFloat2(n2) == Value("float", FALSE, n2, "", <<>>, <<>>)
VStr(s) == Value("str", FALSE, 0, s, <<>>, <<>>)
VSeq(items) == Value("seq", FALSE, 0, "", <<>>, items)
VMap(keys, vals) == Value("map", FALSE, 0, "", keys, vals)

\* Python's truth value of a parsed document, as `not self.data` takes it
Truthy(v) ==
    CASE v.t = "null" -> FALSE
      [] v.t = "bool" -> v.b
      [] v.t = "int" -> v.n2 # 0
      [] v.t = "float" -> v.n2 # 0
      [] v.t = "str" -> v.s # ""
      [] v.t = "seq" -> v.vals # <<>>
      [] v.t = "map" -> v.keys # <<>>

HasKey(v, k) == \E i \in 1..Len(v.keys) : v.keys[i] = k

\* instance[property]
Get(v, k) == v.vals[CHOOSE i \in 1..Len(v.keys) : v.keys[i] = k]

----------------------------------------------------------------------------
(* Parsed JSON schemas: what json.load returns.  A schema is a boolean or   *)
(* a dict; kws lists the dict's keywords in declaration order.              *)

Kw(k, type, required, properties) ==
    [k |-> k, type |-> type, required |-> required, properties |-> properties,
     subschemas |-> <<>>]

\* a combinator and its subschemas, in declaration order; not has one
CombinatorKw(k, subschemas) ==
    [k |-> k, type |-> "", required |-> <<>>, properties |-> <<>>,
     subschemas |-> subschemas]

TypeKw(t) == Kw("type", t, <<>>, <<>>)
RequiredKw(r) == Kw("required", "", r, <<>>)
PropertiesKw(p) == Kw("properties", "", <<>>, p)
Prop(key, sub) == [key |-> key, sub |-> sub]
AllOfKw(subschemas) == CombinatorKw("allOf", subschemas)
AnyOfKw(subschemas) == CombinatorKw("anyOf", subschemas)
OneOfKw(subschemas) == CombinatorKw("oneOf", subschemas)
NotKw(subschema) == CombinatorKw("not", <<subschema>>)

Combinators == {"allOf", "anyOf", "oneOf", "not"}

SDict(kws) == [bool |-> "none", kws |-> kws]
STrue == [bool |-> "true", kws |-> <<>>]
SFalse == [bool |-> "false", kws |-> <<>>]

SimpleTypes == {"array", "boolean", "integer", "null", "number", "object", "string"}

----------------------------------------------------------------------------
(* jsonschema, as validate() uses it at src/validator.py line 85 *)

Digit(d) == <<"0", "1", "2", "3", "4", "5", "6", "7", "8", "9">>[d + 1]

RECURSIVE Digits(_)
\* str() of a natural number
Digits(n) == IF n < 10 THEN Digit(n) ELSE Digits(n \div 10) \o Digit(n % 10)

RECURSIVE Repr(_), ReprItems(_, _), ReprPairs(_, _)
\* repr() of a parsed value, as the messages of jsonschema embed it
Repr(v) ==
    CASE v.t = "null" -> "None"
      [] v.t = "bool" -> IF v.b THEN "True" ELSE "False"
      [] v.t = "int" -> Digits(v.n2 \div 2)
      [] v.t = "float" ->
            Digits(v.n2 \div 2) \o (IF v.n2 % 2 = 0 THEN ".0" ELSE ".5")
      [] v.t = "str" -> "'" \o v.s \o "'"
      [] v.t = "seq" -> "[" \o ReprItems(v, 1) \o "]"
      [] v.t = "map" -> "{" \o ReprPairs(v, 1) \o "}"

ReprItems(v, i) ==
    IF i > Len(v.vals) THEN ""
    ELSE (IF i > 1 THEN ", " ELSE "") \o Repr(v.vals[i]) \o ReprItems(v, i + 1)

ReprPairs(v, i) ==
    IF i > Len(v.keys) THEN ""
    ELSE (IF i > 1 THEN ", " ELSE "") \o "'" \o v.keys[i] \o "': "
         \o Repr(v.vals[i]) \o ReprPairs(v, i + 1)

RECURSIVE ReprNames(_, _)
\* the items of repr() of a list of strings
ReprNames(names, i) ==
    IF i > Len(names) THEN ""
    ELSE (IF i > 1 THEN ", " ELSE "") \o "'" \o names[i] \o "'"
         \o ReprNames(names, i + 1)

RECURSIVE ReprSchema(_), ReprKeywords(_, _), ReprSchemas(_, _), ReprProperties(_, _)
\* repr() of a schema, as the messages of oneOf and not embed it
ReprSchema(s) ==
    CASE s.bool = "true" -> "True"
      [] s.bool = "false" -> "False"
      [] OTHER -> "{" \o ReprKeywords(s.kws, 1) \o "}"

ReprKeywords(kws, i) ==
    IF i > Len(kws) THEN ""
    ELSE (IF i > 1 THEN ", " ELSE "") \o "'" \o kws[i].k \o "': "
         \o (CASE kws[i].k = "type" -> "'" \o kws[i].type \o "'"
               [] kws[i].k = "required" ->
                    "[" \o ReprNames(kws[i].required, 1) \o "]"
               [] kws[i].k = "properties" ->
                    "{" \o ReprProperties(kws[i].properties, 1) \o "}"
               [] kws[i].k = "not" -> ReprSchema(kws[i].subschemas[1])
               [] OTHER -> "[" \o ReprSchemas(kws[i].subschemas, 1) \o "]")
         \o ReprKeywords(kws, i + 1)

ReprSchemas(ss, i) ==
    IF i > Len(ss) THEN ""
    ELSE (IF i > 1 THEN ", " ELSE "") \o ReprSchema(ss[i]) \o ReprSchemas(ss, i + 1)

ReprProperties(ps, i) ==
    IF i > Len(ps) THEN ""
    ELSE (IF i > 1 THEN ", " ELSE "") \o "'" \o ps[i].key \o "': "
         \o ReprSchema(ps[i].sub) \o ReprProperties(ps, i + 1)

\* The type checker of the drafts from 6 on: a bool is no number, and a
\* float with an integral value is an integer.
IsType(inst, t) ==
    CASE t = "array" -> inst.t = "seq"
      [] t = "boolean" -> inst.t = "bool"
      [] t = "integer" -> inst.t = "int" \/ (inst.t = "float" /\ inst.n2 % 2 = 0)
      [] t = "null" -> inst.t = "null"
      [] t = "number" -> inst.t \in {"int", "float"}
      [] t = "object" -> inst.t = "map"
      [] t = "string" -> inst.t = "str"
      [] OTHER -> FALSE

RECURSIVE CheckSchema(_)
\* Validator.check_schema: the schema against its metaschema.  A type
\* outside simpleTypes is the defect the modelled schemas can have; a
\* combinator needs at least one subschema.
CheckSchema(s) ==
    \A i \in 1..Len(s.kws) :
        CASE s.kws[i].k = "type" -> s.kws[i].type \in SimpleTypes
          [] s.kws[i].k = "properties" ->
                \A j \in 1..Len(s.kws[i].properties) :
                    CheckSchema(s.kws[i].properties[j].sub)
          [] s.kws[i].k \in Combinators ->
                /\ s.kws[i].subschemas # <<>>
                /\ \A j \in 1..Len(s.kws[i].subschemas) :
                    CheckSchema(s.kws[i].subschemas[j])
          [] OTHER -> TRUE

\* the message of the SchemaError check_schema raises: the first bad type
RECURSIVE BadType(_)
BadType(s) ==
    LET bad == {i \in 1..Len(s.kws) : ~CheckSchema(SDict(<<s.kws[i]>>))}
        i == CHOOSE m \in bad : \A n \in bad : m <= n
    IN CASE s.kws[i].k = "type" -> s.kws[i].type
         [] s.kws[i].k = "properties" ->
            LET ps == s.kws[i].properties
                j == CHOOSE m \in 1..Len(ps) :
                        /\ ~CheckSchema(ps[m].sub)
                        /\ \A n \in 1..Len(ps) : ~CheckSchema(ps[n].sub) => m <= n
            IN BadType(ps[j].sub)
         [] OTHER ->
            LET ss == s.kws[i].subschemas
                j == CHOOSE m \in 1..Len(ss) :
                        /\ ~CheckSchema(ss[m])
                        /\ \A n \in 1..Len(ss) : ~CheckSchema(ss[n]) => m <= n
            IN BadType(ss[j])

Error(p, sp, validator, message) ==
    [path |-> p, schema_path |-> sp, validator |-> validator, message |-> message,
     context |-> <<>>]

\* ValidationError(message, context=...): the error of anyOf and oneOf that
\* carries the errors of the branches, each with this error as its parent
ErrorWithContext(message, context) ==
    [path |-> <<>>, schema_path |-> <<>>, validator |-> "", message |-> message,
     context |-> context]

\* iter_errors, for every error a keyword yields: error._set(validator=k)
\* where none is set yet, and error.schema_path.appendleft(k)
SchemaPrefixed(errs, k) ==
    [i \in 1..Len(errs) |->
        [errs[i] EXCEPT !.schema_path = <<k>> \o @,
                        !.validator = IF @ = "" THEN k ELSE @]]

\* descend with append in place of appendleft on the schema path
DescendedAppending(errs, p, sp) ==
    [i \in 1..Len(errs) |->
        [errs[i] EXCEPT !.path = <<p>> \o @, !.schema_path = @ \o <<sp>>]]

\* Validator.descend: the errors of a subschema, moved below path
Descended(errs, p, sp) ==
    [i \in 1..Len(errs) |->
        [errs[i] EXCEPT !.path = <<p>> \o @, !.schema_path = <<sp>> \o @]]

\* Validator.descend(instance, subschema, schema_path=index): the errors of
\* a branch of a combinator, which is about the same instance
DescendedInSchema(errs, sp) ==
    [i \in 1..Len(errs) |-> [errs[i] EXCEPT !.schema_path = <<sp>> \o @]]

\* _keywords.required: one error per missing property, in the list's order
RECURSIVE RequiredErrors(_, _, _)
RequiredErrors(inst, required, i) ==
    IF i > Len(required) THEN <<>>
    ELSE (IF HasKey(inst, required[i]) THEN <<>>
          ELSE <<Error(<<>>, <<>>, "",
                       "'" \o required[i] \o "' is a required property")>>)
         \o RequiredErrors(inst, required, i + 1)

RECURSIVE IterErrors(_, _), KeywordsErrors(_, _, _), PropertiesErrors(_, _, _)
\* _keywords.properties: the schema's properties in declaration order, each
\* one the instance has validated against its subschema
PropertiesErrors(inst, properties, i) ==
    IF i > Len(properties) THEN <<>>
    ELSE (IF HasKey(inst, properties[i].key)
          THEN Descended(IterErrors(Get(inst, properties[i].key), properties[i].sub),
                         properties[i].key, properties[i].key)
          ELSE <<>>)
         \o PropertiesErrors(inst, properties, i + 1)

\* Validator.is_valid: iter_errors yields nothing
IsValid(inst, s) == IterErrors(inst, s) = <<>>

RECURSIVE AllOfErrors(_, _, _)
\* _keywords.allOf: the errors of every branch, each below its index
AllOfErrors(inst, subschemas, i) ==
    IF i > Len(subschemas) THEN <<>>
    ELSE DescendedInSchema(IterErrors(inst, subschemas[i]), Digits(i - 1))
         \o AllOfErrors(inst, subschemas, i + 1)

\* the first branch the instance is valid under (0 when there is none):
\* where the loops of anyOf and oneOf break
FirstValid(inst, subschemas) ==
    LET valid == {i \in 1..Len(subschemas) : IsValid(inst, subschemas[i])}
    IN IF valid = {} THEN 0 ELSE CHOOSE i \in valid : \A j \in valid : i <= j

\* _keywords.anyOf: no error once a branch is valid, else one error whose
\* context holds the errors of all branches
AnyOfErrors(inst, subschemas) ==
    IF FirstValid(inst, subschemas) # 0 THEN <<>>
    ELSE <<ErrorWithContext(
             Repr(inst) \o " is not valid under any of the given schemas",
             AllOfErrors(inst, subschemas, 1))>>

\* _keywords.oneOf: the error of anyOf when no branch is valid, and an
\* error when a branch after the first valid one is valid too
OneOfErrors(inst, subschemas) ==
    LET first_valid == FirstValid(inst, subschemas)
        more_valid == SelectSeq([i \in 1..Len(subschemas) |-> i],
                                LAMBDA i : i > first_valid
                                           /\ IsValid(inst, subschemas[i]))
                      \o <<first_valid>>
    IN IF first_valid = 0
       THEN <<ErrorWithContext(
                Repr(inst) \o " is not valid under any of the given schemas",
                AllOfErrors(inst, subschemas, 1))>>
       ELSE IF Len(more_valid) > 1
       THEN <<Error(<<>>, <<>>, "",
                    Repr(inst) \o " is valid under each of "
                    \o ReprSchemas([i \in 1..Len(more_valid) |->
                                        subschemas[more_valid[i]]], 1))>>
       ELSE <<>>

\* _keywords.not_
NotErrors(inst, not_schema) ==
    IF IsValid(inst, not_schema)
    THEN <<Error(<<>>, <<>>, "",
                 Repr(inst) \o " should not be valid under " \o ReprSchema(not_schema))>>
    ELSE <<>>

\* the errors of one keyword of a dict schema
KeywordErrors(inst, kw) ==
    CASE kw.k = "type" ->
            IF IsType(inst, kw.type) THEN <<>>
            ELSE <<Error(<<>>, <<>>, "",
                         Repr(inst) \o " is not of type '" \o kw.type \o "'")>>
      [] kw.k = "required" ->
            IF inst.t = "map" THEN RequiredErrors(inst, kw.required, 1) ELSE <<>>
      [] kw.k = "properties" ->
            IF inst.t = "map" THEN PropertiesErrors(inst, kw.properties, 1) ELSE <<>>
      [] kw.k = "allOf" -> AllOfErrors(inst, kw.subschemas, 1)
      [] kw.k = "anyOf" -> AnyOfErrors(inst, kw.subschemas)
      [] kw.k = "oneOf" -> OneOfErrors(inst, kw.subschemas)
      [] kw.k = "not" -> NotErrors(inst, kw.subschemas[1])

KeywordsErrors(inst, kws, i) ==
    IF i > Len(kws) THEN <<>>
    ELSE SchemaPrefixed(KeywordErrors(inst, kws[i]), kws[i].k)
         \o KeywordsErrors(inst, kws, i + 1)

\* Validator.iter_errors: every violation, in the order the walk meets them
IterErrors(inst, s) ==
    CASE s.bool = "true" -> <<>>
      [] s.bool = "false" ->
            <<Error(<<>>, <<>>, "None", "False schema does not allow " \o Repr(inst))>>
      [] OTHER -> KeywordsErrors(inst, s.kws, 1)

\* keywords best_match ranks below the others, and above them
WeakMatches == {"anyOf", "oneOf"}
StrongMatches == {}

\* the order of Python's str comparison on the property names of the model
KeyRank(k) == CASE k = "age" -> 1 [] k = "name" -> 2 [] OTHER -> 3

RECURSIVE PathGreater(_, _)
\* p > q for two error.path deques of the same length
PathGreater(p, q) ==
    /\ p # <<>>
    /\ \/ KeyRank(Head(p)) > KeyRank(Head(q))
       \/ Head(p) = Head(q) /\ PathGreater(Tail(p), Tail(q))

\* relevance(e) > relevance(best), the key of best_match: a shorter
\* error.path first, then a keyword that is not weak, then a strong one.
\* The releases that also put error.path into the key (tb = "path") compare
\* it right after its length.
MoreRelevant(e, best, tb) ==
    LET notWeak(x) == IF x.validator \notin WeakMatches THEN 1 ELSE 0
        strong(x) == IF x.validator \in StrongMatches THEN 1 ELSE 0
    IN \/ Len(e.path) < Len(best.path)
       \/ /\ Len(e.path) = Len(best.path)
          /\ \/ tb = "path" /\ PathGreater(e.path, best.path)
             \/ /\ tb = "path" => e.path = best.path
                /\ \/ notWeak(e) > notWeak(best)
                   \/ notWeak(e) = notWeak(best) /\ strong(e) > strong(best)

RECURSIVE MaxFrom(_, _, _, _)
\* max(errors, key=relevance): the first of the most relevant errors
MaxFrom(errs, i, best, tb) ==
    IF i > Len(errs) THEN best
    ELSE MaxFrom(errs, i + 1,
                 IF MoreRelevant(errs[i], best, tb) THEN errs[i] ELSE best, tb)

\* fail-fast: the first error the walk meets, whatever its relevance
BestMatchFirstMet(errs, tb) == errs[1]

RECURSIVE MinFrom(_, _, _, _)
\* min(errors, key=relevance): the first of the least relevant errors
MinFrom(errs, i, least, tb) ==
    IF i > Len(errs) THEN least
    ELSE MinFrom(errs, i + 1,
                 IF MoreRelevant(least, errs[i], tb) THEN errs[i] ELSE least, tb)

RECURSIVE Deepest(_, _)
\* the loop of best_match over the context of the error chosen: it goes on
\* with the least relevant error of the context.  The releases from 4.18 on
\* stop at the error itself when the two least relevant errors of its
\* context are equally relevant; the earlier ones (tb = "descend") go on.
Deepest(best, tb) ==
    IF best.context = <<>> THEN best
    ELSE LET smallest == MinFrom(best.context, 2, best.context[1], tb)
             same == {i \in 1..Len(best.context) :
                        /\ ~MoreRelevant(best.context[i], smallest, tb)
                        /\ ~MoreRelevant(smallest, best.context[i], tb)}
         IN IF tb # "descend" /\ Cardinality(same) >= 2 THEN best
            ELSE Deepest(smallest, tb)

\* exceptions.best_match: the most relevant error, then into its context
BestMatch(errs, tb) == Deepest(MaxFrom(errs, 2, errs[1], tb), tb)

Outcome(verdict, p, sp, message) ==
    [verdict |-> verdict, path |-> p, schema_path |-> sp, message |-> message]

NoOutcome == Outcome("None", <<>>, <<>>, "")

\* jsonschema.validate(instance, schema): check_schema, then the best match
\* of iter_errors is raised
JsonschemaValidate(inst, s, tb) ==
    IF ~CheckSchema(s)
    THEN Outcome("SchemaError", <<>>, <<>>,
                 "'" \o BadType(s) \o "' is not valid under any of the given schemas")
    ELSE LET errs == IterErrors(inst, s)
         IN IF errs = <<>> THEN Outcome("Valid", <<>>, <<>>, "")
            ELSE LET e == BestMatch(errs, tb)
                 IN Outcome("Invalid", e.path, e.schema_path, e.message)

----------------------------------------------------------------------------
(* class YamlSchemaValidator *)

\* what open() and the parser make of a file
File(status, value) == [status |-> status, value |-> value]

LoadFailures == {"NotFound", "ParseError", "ReadError"}

RECURSIVE Join(_, _)
\* sep.join(str(p) for p in parts)
Join(parts, sep) ==
    IF parts = <<>> THEN ""
    ELSE IF Len(parts) = 1 THEN parts[1]
    ELSE parts[1] \o sep \o Join(Tail(parts), sep)

\* str(path) of a pathlib.Path
PathStr(parts) == Join(parts, "/")

\* None where a schema is expected
NoSchema == [bool |-> "unset", kws |-> <<>>]

\* load_json_schema taking a file it cannot parse for the empty schema
load_json_schema_lenient(path_, file) ==
    CASE file.status = "ok" ->
            [success |-> TRUE, schema |-> file.value, printed |-> <<>>]
      [] file.status = "NotFound" ->
            [success |-> FALSE, schema |-> NoSchema,
             printed |-> <<"Error: Schema file '" \o PathStr(path_) \o "' not found">>]
      [] OTHER ->
            [success |-> TRUE, schema |-> SDict(<<>>),
             printed |-> <<"Error parsing JSON schema">>]

\* load_json_schema checking what it parsed against the metaschema and
\* refusing content that is not a JSON Schema
load_json_schema_checking(path_, file) ==
    CASE file.status = "ok" /\ CheckSchema(file.value) ->
            [success |-> TRUE, schema |-> file.value, printed |-> <<>>]
      [] file.status = "ok" ->
            [success |-> FALSE, schema |-> NoSchema,
             printed |-> <<"Error reading JSON schema file">>]
      [] file.status = "NotFound" ->
            [success |-> FALSE, schema |-> NoSchema,
             printed |-> <<"Error: Schema file '" \o PathStr(path_) \o "' not found">>]
      [] OTHER ->
            [success |-> FALSE, schema |-> NoSchema,
             printed |-> <<"Error parsing JSON schema">>]

\* YamlSchemaValidator.load_json_schema: (success, schema) and the line
\* printed; every exception of open and json.load is caught
load_json_schema(path_, file) ==
    CASE file.status = "ok" ->
            [success |-> TRUE, schema |-> file.value, printed |-> <<>>]
      [] file.status = "NotFound" ->
            [success |-> FALSE, schema |-> NoSchema,
             printed |-> <<"Error: Schema file '" \o PathStr(path_) \o "' not found">>]
      [] file.status = "ParseError" ->
            [success |-> FALSE, schema |-> NoSchema,
             printed |-> <<"Error parsing JSON schema">>]
      [] OTHER ->
            [success |-> FALSE, schema |-> NoSchema,
             printed |-> <<"Error reading JSON schema file">>]

\* YamlSchemaValidator.__init__
NewValidator(yaml, schema_object) ==
    [yaml_file |-> yaml, data |-> VNull, schema |-> schema_object]

\* open(path): the file opened and how reading it went
Opened(p, file) == [path |-> p, status |-> file.status]

\* load_yaml assigning None to self.data when the load fails
load_yaml_clearing(self, file) ==
    CASE file.status = "ok" ->
            [self |-> [self EXCEPT !.data = file.value], ret |-> TRUE,
             printed |-> <<>>]
      [] file.status = "NotFound" ->
            [self |-> [self EXCEPT !.data = VNull], ret |-> FALSE,
             printed |-> <<"Error: File '" \o PathStr(self.yaml_file) \o "' not found">>]
      [] file.status = "ParseError" ->
            [self |-> [self EXCEPT !.data = VNull], ret |-> FALSE,
             printed |-> <<"Error parsing YAML">>]
      [] OTHER ->
            [self |-> [self EXCEPT !.data = VNull], ret |-> FALSE,
             printed |-> <<"Error reading YAML file">>]

\* YamlSchemaValidator.load_yaml: self afterwards, the value returned and
\* the line printed
load_yaml(self, file) ==
    CASE file.status = "ok" ->
            [self |-> [self EXCEPT !.data = file.value], ret |-> TRUE,
             printed |-> <<>>]
      [] file.status = "NotFound" ->
            [self |-> self, ret |-> FALSE,
             printed |-> <<"Error: File '" \o PathStr(self.yaml_file) \o "' not found">>]
      [] file.status = "ParseError" ->
            [self |-> self, ret |-> FALSE, printed |-> <<"Error parsing YAML">>]
      [] OTHER ->
            [self |-> self, ret |-> FALSE, printed |-> <<"Error reading YAML file">>]

\* the report with the schema path rendered like the failure path, as
\* root when it is empty
ViolationLinesSchemaRoot(e) ==
    <<"Validation Error: " \o e.message,
      "Failed at: " \o (IF e.path # <<>> THEN Join(e.path, " -> ") ELSE "root"),
      "Schema path: "
        \o (IF e.schema_path # <<>> THEN Join(e.schema_path, " -> ") ELSE "root")>>

\* the lines validate prints for a ValidationError
ViolationLines(e) ==
    <<"Validation Error: " \o e.message,
      "Failed at: " \o (IF e.path # <<>> THEN Join(e.path, " -> ") ELSE "root")>>
    \o (IF e.schema_path # <<>>
        THEN <<"Schema path: " \o Join(e.schema_path, " -> ")>> ELSE <<>>)

\* validate dropping the document it has checked (self.data = None)
validate_consuming(self, tb) ==
    IF ~Truthy(self.data)
    THEN [self |-> self, ret |-> FALSE,
          found |-> Outcome("NoData", <<>>, <<>>, ""),
          printed |-> <<"Error: No data loaded. Call load_yaml() first.">>]
    ELSE LET o == JsonschemaValidate(self.data, self.schema, tb)
         IN [self |-> [self EXCEPT !.data = VNull], ret |-> o.verdict = "Valid",
             found |-> o,
             printed |-> CASE o.verdict = "Valid" -> <<>>
                           [] o.verdict = "Invalid" -> ViolationLines(o)
                           [] OTHER -> <<"Schema Error: " \o o.message>>]

\* validate forgetting a document it has found wanting (self.data = None)
validate_resetting(self, tb) ==
    IF ~Truthy(self.data)
    THEN [self |-> self, ret |-> FALSE,
          found |-> Outcome("NoData", <<>>, <<>>, ""),
          printed |-> <<"Error: No data loaded. Call load_yaml() first.">>]
    ELSE LET o == JsonschemaValidate(self.data, self.schema, tb)
         IN [self |-> IF o.verdict = "Valid" THEN self ELSE [self EXCEPT !.data = VNull],
             ret |-> o.verdict = "Valid", found |-> o,
             printed |-> CASE o.verdict = "Valid" -> <<>>
                           [] o.verdict = "Invalid" -> ViolationLines(o)
                           [] OTHER -> <<"Schema Error: " \o o.message>>]

\* the try statement of validate, for what the library call gave (o):
\* return True, or the lines of the except clause taken and return False
Tried(self, o) ==
    [self |-> self, ret |-> o.verdict = "Valid", found |-> o,
     printed |-> CASE o.verdict = "Valid" -> <<>>
                   [] o.verdict = "Invalid" -> ViolationLines(o)
                   [] OTHER -> <<"Schema Error: " \o o.message>>]

\* YamlSchemaValidator.validate: self afterwards, the value returned, what
\* the call found and the lines printed
validate(self, tb) ==
    IF ~Truthy(self.data)
    THEN [self |-> self, ret |-> FALSE,
          found |-> Outcome("NoData", <<>>, <<>>, ""),
          printed |-> <<"Error: No data loaded. Call load_yaml() first.">>]
    ELSE Tried(self, JsonschemaValidate(self.data, self.schema, tb))

\* validate_and_report going on to validate whatever load_yaml returned
validate_and_report_ignoring_load(self, file, tb) ==
    LET head == <<"Validating: " \o PathStr(self.yaml_file), "----">>
        l == load_yaml(self, file)
        v == validate(l.self, tb)
    IN [self |-> v.self, ret |-> v.ret, found |-> v.found,
        stages |-> <<"load_yaml", "validate">>,
        printed |-> head \o l.printed \o v.printed
                    \o (IF v.ret THEN <<"Validation successful">>
                        ELSE <<"Validation failed">>)]

\* validate_and_report reading and validating the document once more when
\* the first validation fails
validate_and_report_retrying(self, file, tb) ==
    LET head == <<"Validating: " \o PathStr(self.yaml_file), "----">>
        l == load_yaml(self, file)
        v == validate(l.self, tb)
    IN IF ~l.ret
       THEN [self |-> l.self, ret |-> FALSE, found |-> NoOutcome,
             stages |-> <<"load_yaml">>,
             printed |-> head \o l.printed \o <<"Validation failed">>]
       ELSE IF v.ret
       THEN [self |-> v.self, ret |-> TRUE, found |-> v.found,
             stages |-> <<"load_yaml", "validate">>,
             printed |-> head \o l.printed \o v.printed
                         \o <<"Validation successful",
                              "File '" \o PathStr(self.yaml_file)
                                 \o "' is valid according to the schema.">>]
       ELSE [self |-> v.self, ret |-> FALSE, found |-> v.found,
             stages |-> <<"load_yaml", "validate", "load_yaml", "validate">>,
             printed |-> head \o l.printed \o v.printed \o v.printed
                         \o <<"Validation failed">>]

\* the lines validate_and_report prints and what it returns, given what
\* load_yaml gave (l) and what validate gives after it (v)
Reported(self, l, v) ==
    LET head == <<"Validating: " \o PathStr(self.yaml_file), "----">>
    IN IF ~l.ret
       THEN [self |-> l.self, ret |-> FALSE, found |-> NoOutcome,
             stages |-> <<"load_yaml">>,
             printed |-> head \o l.printed \o <<"Validation failed">>]
       ELSE IF v.ret
       THEN [self |-> v.self, ret |-> TRUE, found |-> v.found,
             stages |-> <<"load_yaml", "validate">>,
             printed |-> head \o l.printed \o v.printed
                         \o <<"Validation successful",
                              "File '" \o PathStr(self.yaml_file)
                                 \o "' is valid according to the schema.">>]
       ELSE [self |-> v.self, ret |-> FALSE, found |-> v.found,
             stages |-> <<"load_yaml", "validate">>,
             printed |-> head \o l.printed \o v.printed \o <<"Validation failed">>]

\* YamlSchemaValidator.validate_and_report: load_yaml, then validate on
\* the validator load_yaml has left (called only when load_yaml returned
\* True, which Reported sees to)
validate_and_report(self, file, tb) ==
    LET l == load_yaml(self, file)
    IN Reported(self, l, validate(l.self, tb))

----------------------------------------------------------------------------
(* infer_schema_path *)

NoPath == <<>>

\* parts.index('samples'): the first position of the anchor
AnchorIndex(parts) ==
    CHOOSE i \in 1..Len(parts) :
        parts[i] = "samples" /\ \A j \in 1..(i - 1) : parts[j] # "samples"

\* the resolver with the anchor itself taken as the category (parts[idx])
infer_schema_path_anchor_as_category(parts) ==
    IF \E i \in 1..Len(parts) : parts[i] = "samples"
    THEN LET category == parts[AnchorIndex(parts)]
         IN [raised |-> "",
             path |-> <<"schemas", category, category \o ".schema.json">>]
    ELSE [raised |-> "", path |-> NoPath]

\* the resolver falling back on a default category where there is no anchor
infer_schema_path_defaulting(parts) ==
    IF \E i \in 1..Len(parts) : parts[i] = "samples"
    THEN LET idx == AnchorIndex(parts)
         IN IF idx + 1 > Len(parts)
            THEN [raised |-> "IndexError", path |-> NoPath]
            ELSE LET category == parts[idx + 1]
                 IN [raised |-> "",
                     path |-> <<"schemas", category, category \o ".schema.json">>]
    ELSE [raised |-> "", path |-> <<"schemas", "default", "default.schema.json">>]

\* the resolver taking the last occurrence of the anchor
infer_schema_path_last_anchor(parts) ==
    IF \E i \in 1..Len(parts) : parts[i] = "samples"
    THEN LET idx == CHOOSE i \in 1..Len(parts) :
                        parts[i] = "samples"
                        /\ \A j \in (i + 1)..Len(parts) : parts[j] # "samples"
         IN IF idx + 1 > Len(parts)
            THEN [raised |-> "IndexError", path |-> NoPath]
            ELSE LET category == parts[idx + 1]
                 IN [raised |-> "",
                     path |-> <<"schemas", category, category \o ".schema.json">>]
    ELSE [raised |-> "", path |-> NoPath]

\* infer_schema_path: the path returned (NoPath for None), or the IndexError
\* of parts[idx + 1] on a path that ends with the anchor
infer_schema_path(parts) ==
    IF \E i \in 1..Len(parts) : parts[i] = "samples"
    THEN LET idx == AnchorIndex(parts)
         IN IF idx + 1 > Len(parts)
            THEN [raised |-> "IndexError", path |-> NoPath]
            ELSE LET category == parts[idx + 1]
                 IN [raised |-> "",
                     path |-> <<"schemas", category, category \o ".schema.json">>]
    ELSE [raised |-> "", path |-> NoPath]

----------------------------------------------------------------------------
(* The inputs: document paths, documents, schemas and files *)

Components == {"samples", "samples2", "tc"}

\* the document paths of up to MaxParts components
Paths == UNION {[1..n -> Components] : n \in 1..MaxParts}

ExplicitSchemaFiles == {<<"custom.schema.json">>}

Alice == VStr("Alice")

NameValues == {Alice, VInt(3)}
AgeValues == {VInt(30), VStr("thirty"), VInt(0)}

RootValues ==
    {VNull, VBool(FALSE), VBool(TRUE), VInt(0), VInt(3), VFloat2(7), VFloat2(6),
     VStr(""), Alice, VSeq(<<>>)}

Mappings ==
    {VMap(<<>>, <<>>)}
    \cup {VMap(<<"name">>, <<n>>) : n \in NameValues}
    \cup {VMap(<<"age">>, <<a>>) : a \in AgeValues}
    \cup {VMap(<<"name", "age">>, <<n, a>>) : n \in NameValues, a \in AgeValues}
    \cup {VMap(<<"age", "name">>, <<a, n>>) : n \in NameValues, a \in AgeValues}

Documents == RootValues \cup Mappings

TypeOnly(t) == SDict(<<TypeKw(t)>>)

PropertyLists ==
    {<<Prop("age", TypeOnly("integer"))>>,
     <<Prop("name", TypeOnly("string")), Prop("age", TypeOnly("integer"))>>,
     <<Prop("age", TypeOnly("integer")), Prop("name", TypeOnly("string"))>>}

RequiredLists == {<<>>, <<"name", "age">>}

MappingSchemas ==
    {SDict(<<PropertiesKw(p), RequiredKw(r)>>) :
            p \in PropertyLists, r \in RequiredLists}
    \cup {SDict(<<RequiredKw(r), PropertiesKw(p)>>) :
            p \in PropertyLists, r \in RequiredLists}

\* the schema of the scenarios: age an integer, name and age required
ScenarioSchema ==
    SDict(<<PropertiesKw(<<Prop("age", TypeOnly("integer"))>>),
            RequiredKw(<<"name", "age">>)>>)

Schemas ==
    {STrue, SFalse, SDict(<<>>)}
    \cup {TypeOnly(t) : t \in {"integer", "number", "string", "object", "bogus"}}
    \cup {SDict(<<PropertiesKw(<<Prop("age", TypeOnly("bogus"))>>)>>)}
    \cup MappingSchemas

FailedFiles(none) == {File(st, none) : st \in LoadFailures}

\* what reading the document can give a client of the validator
DocumentFiles == FailedFiles(VNull) \cup {File("ok", d) : d \in Documents}

\* the documents and schemas the runs of main are given
RunDocuments ==
    {VNull, VMap(<<>>, <<>>), VInt(0), VInt(3), VFloat2(7),
     VMap(<<"name", "age">>, <<Alice, VInt(30)>>),
     VMap(<<"name">>, <<Alice>>),
     VMap(<<"age">>, <<VStr("thirty")>>),
     VMap(<<"name", "age">>, <<Alice, VStr("thirty")>>)}

RunSchemas ==
    {ScenarioSchema, SDict(<<>>), SFalse, TypeOnly("integer"), TypeOnly("number"),
     TypeOnly("bogus")}

RunDocumentFiles == FailedFiles(VNull) \cup {File("ok", d) : d \in RunDocuments}
RunSchemaFiles == FailedFiles(NoSchema) \cup {File("ok", x) : x \in RunSchemas}

TieBreaks == {"first", "path"}

\* the releases that tell apart on errors with a context: besides the two
\* above, the ones before 4.18, whose best_match always goes into a context
ContextTieBreaks == TieBreaks \cup {"descend"}

Age(v) == VMap(<<"age">>, <<v>>)

\* the documents validated against schemas with combinators
CombinatorDocuments ==
    RootValues
    \cup {VMap(<<>>, <<>>), Age(VInt(30)), Age(VInt(0)), Age(VStr("thirty")),
          Age(VMap(<<"name">>, <<Alice>>)), Age(VMap(<<"name">>, <<VInt(3)>>))}

NameInteger == SDict(<<PropertiesKw(<<Prop("name", TypeOnly("integer"))>>)>>)

\* the lists of branches of the combinators of the model
BranchLists ==
    {<<TypeOnly("integer")>>,
     <<TypeOnly("integer"), TypeOnly("string")>>,
     <<TypeOnly("integer"), TypeOnly("number")>>,
     <<TypeOnly("number"), TypeOnly("integer"), TypeOnly("number")>>,
     <<STrue, SFalse>>,
     <<NameInteger>>}

\* schemas with a combinator at the root or below the property age
CombinatorSchemas ==
    LET roots == {SDict(<<CombinatorKw(k, b)>>) :
                        k \in {"allOf", "anyOf", "oneOf"}, b \in BranchLists}
                 \cup {SDict(<<NotKw(s)>>) :
                            s \in {TypeOnly("integer"), TypeOnly("number"), SFalse}}
                 \cup {SDict(<<AnyOfKw(<<TypeOnly("bogus")>>)>>)}
    IN roots
       \cup {SDict(<<PropertiesKw(<<Prop("age", SDict(<<AnyOfKw(b)>>))>>)>>) :
                b \in {<<TypeOnly("integer")>>, <<NameInteger>>}}

CombinatorDocumentFiles ==
    FailedFiles(VNull) \cup {File("ok", d) : d \in CombinatorDocuments}

----------------------------------------------------------------------------
(* A run of main *)

Self == [yaml_file |-> yaml_file, data |-> data, schema |-> schema]

Init ==
    /\ CiIdle
    /\ tieBreak \in TieBreaks
    /\ pc = "click"
    /\ yaml_file \in Paths
    /\ schema_file \in {NoPath} \cup ExplicitSchemaFiles
    /\ schema_path = NoPath
    /\ schema = NoSchema
    /\ data = VNull
    /\ read = ""
    /\ result = NoOutcome
    /\ prev = NoOutcome
    /\ ret = "None"
    /\ out = <<>>
    /\ exitStatus = -1
    /\ stages = <<>>
    /\ opened = <<>>
    /\ validators = <<>>

\* sys.exit(status)
Exit(status) == pc' = "done" /\ exitStatus' = status

\* click.Path(exists=True) on an argument that names no file: click ends
\* the process with its usage error, status 2, before main's body runs
ClickReject ==
    /\ pc = "click"
    /\ \E yamlExists, schemaExists \in BOOLEAN :
        /\ ~yamlExists \/ (schema_file # NoPath /\ ~schemaExists)
        /\ out' = <<"Usage: Error: Invalid value: Path '"
                    \o PathStr(IF ~yamlExists THEN yaml_file ELSE schema_file)
                    \o "' does not exist.">>
    /\ Exit(2)
    /\ UNCHANGED <<yaml_file, schema_file, schema_path, schema, data, read, result,
                   prev, ret, stages, opened, validators, tieBreak, ciVars>>

\* both arguments pass click's checks and main's body starts
ClickAccept ==
    /\ pc = "click"
    /\ pc' = "resolve"
    /\ UNCHANGED <<yaml_file, schema_file, schema_path, schema, data, read, result,
                   prev, ret, out, exitStatus, stages, opened, validators, tieBreak, ciVars>>

\* main's choice with the convention taken first where it applies
resolve_preferring_convention(schema_arg, parts) ==
    IF \E i \in 1..Len(parts) : parts[i] = "samples"
    THEN infer_schema_path(parts)
    ELSE [raised |-> "", path |-> schema_arg]

\* main, "Infer schema path if not provided": the schema path main goes on
\* with (NoPath when it has none), or the exception of infer_schema_path
resolve(schema_arg, parts) ==
    IF schema_arg = NoPath
    THEN infer_schema_path(parts)
    ELSE [raised |-> "", path |-> schema_arg]

\* main up to the schema path: the two lines of the usage error and
\* sys.exit(1) when there is none
ResolveSchema ==
    /\ pc = "resolve"
    /\ stages' = Append(stages, "resolve")
    /\ LET r == resolve(schema_file, yaml_file)
       IN IF r.raised # ""
          THEN \* the IndexError leaves main: traceback, status 1
               /\ out' = <<"Traceback: " \o r.raised>>
               /\ Exit(1)
               /\ UNCHANGED schema_path
          ELSE IF r.path = NoPath
          THEN /\ out' = <<"Error: Could not infer schema path for '"
                           \o PathStr(yaml_file) \o "'",
                           "Please provide schema file as second argument">>
               /\ Exit(1)
               /\ schema_path' = r.path
          ELSE /\ schema_path' = r.path
               /\ pc' = "load_schema"
               /\ UNCHANGED <<out, exitStatus>>
    /\ UNCHANGED <<yaml_file, schema_file, schema, data, read, result, prev, ret,
                   opened, validators, tieBreak, ciVars>>

\* main, "Load schema", and the construction of the validator
LoadSchema ==
    /\ pc = "load_schema"
    /\ stages' = Append(stages, "load_schema")
    /\ \E file \in RunSchemaFiles :
        LET r == load_json_schema(schema_path, file)
        IN /\ out' = out \o r.printed
           /\ opened' = Append(opened, Opened(schema_path, file))
           /\ IF ~r.success
              THEN Exit(1) /\ UNCHANGED <<schema, data>>
              ELSE LET v == NewValidator(yaml_file, r.schema)
                   IN /\ schema' = v.schema
                      /\ data' = v.data
                      /\ pc' = "validate"
                      /\ UNCHANGED exitStatus
    /\ UNCHANGED <<yaml_file, schema_file, schema_path, read, result, prev, ret,
                   validators, tieBreak, ciVars>>

\* the files a call has opened that ran these stages: load_yaml opens the
\* document each time it runs
OpenedBy(stgs, p, file) ==
    [i \in 1..Len(SelectSeq(stgs, LAMBDA s : s = "load_yaml")) |-> Opened(p, file)]

\* the two exits of main's last lines exchanged
ExitStatusForSwapped(valid) == IF valid THEN 1 ELSE 0

\* main's last lines: the exit status for what validate_and_report returned
ExitStatusFor(valid) == IF valid THEN 0 ELSE 1

\* main, "Validate YAML": validate_and_report and the exit on what it returns
ValidateYaml ==
    /\ pc = "validate"
    /\ \E file \in RunDocumentFiles :
        \E r \in {validate_and_report(Self, file, tieBreak)} :
           /\ data' = r.self.data
           /\ schema' = r.self.schema
           /\ read' = file.status
           /\ result' = r.found
           /\ prev' = result
           /\ ret' = IF r.ret THEN "True" ELSE "False"
           /\ out' = out \o r.printed
           /\ stages' = stages \o r.stages
           /\ opened' = opened \o OpenedBy(r.stages, yaml_file, file)
           /\ Exit(ExitStatusFor(r.ret))
    /\ UNCHANGED <<yaml_file, schema_file, schema_path, validators, tieBreak, ciVars>>

Next == ClickReject \/ ClickAccept \/ ResolveSchema \/ LoadSchema \/ ValidateYaml

Spec == Init /\ [][Next]_vars

----------------------------------------------------------------------------
(* A client that calls the methods of one validator, in any order *)

InitApi ==
    /\ CiIdle
    /\ tieBreak \in TieBreaks
    /\ pc = "api"
    /\ yaml_file = <<"tc", "doc.yml">>
    /\ schema_file = NoPath
    /\ schema_path = NoPath
    /\ \E s \in Schemas : schema = NewValidator(yaml_file, s).schema
    /\ data = NewValidator(yaml_file, schema).data
    /\ read = ""
    /\ result = NoOutcome
    /\ prev = NoOutcome
    /\ ret = "None"
    /\ out = <<>>
    /\ exitStatus = -1
    /\ stages = <<>>
    /\ opened = <<>>
    /\ validators = <<>>

CallLoadYaml ==
    /\ pc = "api"
    /\ \E file \in DocumentFiles :
        LET r == load_yaml(Self, file)
        IN /\ data' = r.self.data
           /\ schema' = r.self.schema
           /\ read' = file.status
           /\ ret' = IF r.ret THEN "True" ELSE "False"
           /\ out' = r.printed
           /\ opened' = <<Opened(yaml_file, file)>>
    /\ result' = NoOutcome
    /\ prev' = NoOutcome
    /\ stages' = <<"load_yaml">>
    /\ UNCHANGED <<pc, yaml_file, schema_file, schema_path, exitStatus, validators,
                   tieBreak, ciVars>>

CallValidate ==
    /\ pc = "api"
    /\ \E r \in {validate(Self, tieBreak)} :
          /\ data' = r.self.data
          /\ schema' = r.self.schema
          /\ result' = r.found
          /\ ret' = IF r.ret THEN "True" ELSE "False"
          /\ out' = r.printed
    /\ prev' = result
    /\ stages' = <<"validate">>
    /\ opened' = <<>>
    /\ UNCHANGED <<read, pc, yaml_file, schema_file, schema_path, exitStatus,
                   validators, tieBreak, ciVars>>

NextApi == CallLoadYaml \/ CallValidate

SpecApi == InitApi /\ [][NextApi]_vars

----------------------------------------------------------------------------
(* The same client, with a validator whose schema has combinators *)

InitCombinators ==
    /\ CiIdle
    /\ tieBreak \in ContextTieBreaks
    /\ pc = "api"
    /\ yaml_file = <<"tc", "doc.yml">>
    /\ schema_file = NoPath
    /\ schema_path = NoPath
    /\ \E s \in CombinatorSchemas : schema = NewValidator(yaml_file, s).schema
    /\ data = NewValidator(yaml_file, schema).data
    /\ read = ""
    /\ result = NoOutcome
    /\ prev = NoOutcome
    /\ ret = "None"
    /\ out = <<>>
    /\ exitStatus = -1
    /\ stages = <<>>
    /\ opened = <<>>
    /\ validators = <<>>

\* load_yaml on a document of the combinator schemas
CallLoadYamlCombinators ==
    /\ pc = "api"
    /\ \E file \in CombinatorDocumentFiles :
        LET r == load_yaml(Self, file)
        IN /\ data' = r.self.data
           /\ schema' = r.self.schema
           /\ read' = file.status
           /\ ret' = IF r.ret THEN "True" ELSE "False"
           /\ out' = r.printed
           /\ opened' = <<Opened(yaml_file, file)>>
    /\ result' = NoOutcome
    /\ prev' = NoOutcome
    /\ stages' = <<"load_yaml">>
    /\ UNCHANGED <<pc, yaml_file, schema_file, schema_path, exitStatus, validators,
                   tieBreak, ciVars>>

NextCombinators == CallLoadYamlCombinators \/ CallValidate

SpecCombinators == InitCombinators /\ [][NextCombinators]_vars

----------------------------------------------------------------------------
(* A client that holds two validators and runs validate_and_report on both, *)
(* the steps of the two calls interleaved in any order                      *)

ValidatorIds == {1, 2}

TwoPaths == <<<<"tc", "a.yml">>, <<"tc", "b.yml">>>>

TwoDocumentFiles ==
    {File("ParseError", VNull),
     File("ok", VMap(<<>>, <<>>)),
     File("ok", VMap(<<"name", "age">>, <<Alice, VInt(30)>>)),
     File("ok", VMap(<<"age", "name">>, <<VStr("thirty"), VInt(3)>>))}

TwoSchemas == {ScenarioSchema, SFalse, TypeOnly("bogus")}

\* a validator object, the schema it was constructed with, what its
\* document file holds, how far its validate_and_report has come, and what
\* the call has returned and found
Held(self, file) ==
    [self |-> self, schema_object |-> self.schema, doc |-> file, at |-> "new",
     ret |-> "None", found |-> NoOutcome]

\* an assignment to an attribute of the class, seen by every validator
AssignShared(vs, i, self) ==
    [j \in DOMAIN vs |-> [vs[j] EXCEPT !.self.data = self.data]]

\* the assignments to attributes of self: they change this validator only
Assign(vs, i, self) == [vs EXCEPT ![i].self = self]

InitTwo ==
    /\ CiIdle
    /\ tieBreak \in TieBreaks
    /\ pc = "two"
    /\ yaml_file = NoPath
    /\ schema_file = NoPath
    /\ schema_path = NoPath
    /\ schema = NoSchema
    /\ data = VNull
    /\ read = ""
    /\ result = NoOutcome
    /\ prev = NoOutcome
    /\ ret = "None"
    /\ out = <<>>
    /\ exitStatus = -1
    /\ stages = <<>>
    /\ opened = <<>>
    /\ \E f1, f2 \in TwoDocumentFiles, s1, s2 \in TwoSchemas :
        /\ <<f1, s1>> # <<f2, s2>>
        /\ validators = <<Held(NewValidator(TwoPaths[1], s1), f1),
                          Held(NewValidator(TwoPaths[2], s2), f2)>>

\* validate_and_report of validator i up to the return of load_yaml
LoadYamlOf(i) ==
    /\ validators[i].at = "new"
    /\ LET v == validators[i]
           l == load_yaml(v.self, v.doc)
       IN /\ validators' =
                [Assign(validators, i, l.self) EXCEPT
                    ![i].at = IF l.ret THEN "loaded" ELSE "failed"]
          /\ out' = out \o <<"Validating: " \o PathStr(v.self.yaml_file), "----">>
                        \o l.printed
          /\ opened' = Append(opened, Opened(v.self.yaml_file, v.doc))
    /\ UNCHANGED <<pc, yaml_file, schema_file, schema_path, schema, data, read,
                   result, prev, ret, exitStatus, stages, tieBreak, ciVars>>

\* the call of validate in validate_and_report of validator i
ValidateOf(i) ==
    /\ validators[i].at = "loaded"
    /\ \E r \in {validate(validators[i].self, tieBreak)} :
          /\ validators' =
                [Assign(validators, i, r.self) EXCEPT
                    ![i].at = "validated", ![i].found = r.found,
                    ![i].ret = IF r.ret THEN "True" ELSE "False"]
          /\ out' = out \o r.printed
    /\ UNCHANGED <<pc, yaml_file, schema_file, schema_path, schema, data, read,
                   result, prev, ret, exitStatus, stages, opened, tieBreak, ciVars>>

\* the closing lines of validate_and_report of validator i, and its return
ReportOf(i) ==
    /\ validators[i].at \in {"failed", "validated"}
    /\ LET v == validators[i]
           valid == v.at = "validated" /\ v.ret = "True"
       IN /\ validators' =
                [validators EXCEPT ![i].at = "done",
                                   ![i].ret = IF valid THEN "True" ELSE "False"]
          /\ out' = out \o (IF valid
                             THEN <<"Validation successful",
                                    "File '" \o PathStr(v.self.yaml_file)
                                        \o "' is valid according to the schema.">>
                             ELSE <<"Validation failed">>)
    /\ UNCHANGED <<pc, yaml_file, schema_file, schema_path, schema, data, read,
                   result, prev, ret, exitStatus, stages, opened, tieBreak, ciVars>>

NextTwo == \E i \in ValidatorIds : LoadYamlOf(i) \/ ValidateOf(i) \/ ReportOf(i)

SpecTwo == InitTwo /\ [][NextTwo]_vars

----------------------------------------------------------------------------
(* The CI scripts of src/scripts.  They run apart from the validator, whose *)
(* state stays as below while one of them runs.                             *)

ValidatorIdle ==
    /\ tieBreak = "first"
    /\ yaml_file = NoPath /\ schema_file = NoPath /\ schema_path = NoPath
    /\ schema = NoSchema /\ data = VNull /\ read = ""
    /\ result = NoOutcome /\ prev = NoOutcome /\ ret = "None"
    /\ stages = <<>> /\ opened = <<>> /\ validators = <<>>

----------------------------------------------------------------------------
(* scripts/ci_compare_performance.py: compare_metrics, and the comment      *)
(* scripts/ci_post_performance_comment.py makes of what it returns.         *)
(* Times are held in thousandths of a second, the grid of round(elapsed, 3) *)
(* in ci_benchmark.py; the program holds them as Python floats (or ints).   *)

\* threshold = 10.0
Threshold == 10

\* the result of one test: a dict with the keys named, among them the times
Result(keys, avg_time, elapsed_time) ==
    [keys |-> keys, avg_time |-> avg_time, elapsed_time |-> elapsed_time]

\* None where the result of a test is expected
NoResult == [keys |-> {}, avg_time |-> 0, elapsed_time |-> 0, none |-> TRUE]

\* one item of a 'tests' dict
Test(name, r) == [test |-> name, result |-> r]

\* performance data: None, or a dict with the keys named; tests lists the
\* items of its 'tests' dict in insertion order
PerfData(none, keys, tests) == [none |-> none, keys |-> keys, tests |-> tests]

\* load_performance_data / get_baseline_performance returning None
PerfNone == PerfData(TRUE, {}, <<>>)

\* not baseline, not current: None and the empty dict are falsy
NotPerf(d) == d.none \/ d.keys = {}

\* baseline.get('tests', {})
TestsOf(d) == IF "tests" \in d.keys THEN d.tests ELSE <<>>

\* baseline_tests.get(test_name)
TestsGet(tests, test_name) ==
    IF \E i \in 1..Len(tests) : tests[i].test = test_name
    THEN tests[CHOOSE i \in 1..Len(tests) : tests[i].test = test_name].result
    ELSE NoResult

\* not baseline_result: None and the empty dict are falsy
NotResult(r) == r.keys = {}

\* a time that is a binary fraction (a multiple of 1/8 s), which a float
\* holds exactly; the differences and quotients of the model's exact times
\* are then computed as in exact arithmetic
ExactTime(t) == t % 125 = 0

\* the sign of percent_change - bound, for percent_change =
\* (diff / baseline_time * 100) if baseline_time > 0 else 0.  Where the
\* change is the bound exactly and a time is no binary fraction, the float
\* computed is the bound or a neighbour of it: r is the sign of its error
PercentChangeAgainst(baseline_time, current_time, bound, r) ==
    IF baseline_time > 0
    THEN IF (current_time - baseline_time) * 100 > bound * baseline_time THEN 1
         ELSE IF (current_time - baseline_time) * 100 < bound * baseline_time THEN -1
         ELSE IF ExactTime(baseline_time) /\ ExactTime(current_time) THEN 0
         ELSE r
    ELSE IF 0 > bound THEN 1 ELSE IF 0 < bound THEN -1 ELSE 0

\* round(x, 2) of x = n / d percent, in hundredths of a percent, d > 0;
\* where n / d lies halfway the float's error decides, and round half to
\* even does if there is none
RoundedHundredths(n, d, r) ==
    IF (2 * n * 100 + d) % (2 * d) # 0 THEN (2 * n * 100 + d) \div (2 * d)
    ELSE IF r > 0 THEN (2 * n * 100 + d) \div (2 * d)
    ELSE IF r < 0 THEN ((2 * n * 100 + d) \div (2 * d)) - 1
    ELSE IF ((2 * n * 100 + d) \div (2 * d)) % 2 = 0
    THEN (2 * n * 100 + d) \div (2 * d)
    ELSE ((2 * n * 100 + d) \div (2 * d)) - 1

\* the metric dict of a test; diff in thousandths of a second and
\* percent_change in hundredths of a percent
Metric(test_name, baseline_time, current_time, r) ==
    [test |-> test_name, baseline |-> baseline_time, current |-> current_time,
     diff |-> current_time - baseline_time,
     percent_change |->
        IF baseline_time > 0
        THEN RoundedHundredths((current_time - baseline_time) * 100, baseline_time, r)
        ELSE 0]

\* percent_change >= threshold taken for percent_change > threshold
IsRegressionInclusive(baseline_time, current_time, r) ==
    PercentChangeAgainst(baseline_time, current_time, Threshold, r) >= 0

\* percent_change > threshold
IsRegression(baseline_time, current_time, r) ==
    PercentChangeAgainst(baseline_time, current_time, Threshold, r) = 1

\* percent_change < -threshold
IsImprovement(baseline_time, current_time, r) ==
    PercentChangeAgainst(baseline_time, current_time, -Threshold, r) = -1

\* the if / elif on percent_change: the metric appended to one list or to
\* none
Classified(cmp, test_name, baseline_time, current_time, r) ==
    IF IsRegression(baseline_time, current_time, r)
    THEN [cmp EXCEPT !.regressions =
                Append(@, Metric(test_name, baseline_time, current_time, r))]
    ELSE IF IsImprovement(baseline_time, current_time, r)
    THEN [cmp EXCEPT !.improvements =
                Append(@, Metric(test_name, baseline_time, current_time, r))]
    ELSE cmp

\* the body of the loop for one test of the current results
Compared(cmp, test_name, baseline_result, current_result, r) ==
    IF NotResult(baseline_result) THEN cmp
    ELSE IF "avg_time" \in current_result.keys /\ "avg_time" \in baseline_result.keys
    THEN Classified(cmp, test_name, baseline_result.avg_time,
                    current_result.avg_time, r)
    ELSE IF "elapsed_time" \in current_result.keys
            /\ "elapsed_time" \in baseline_result.keys
    THEN Classified(cmp, test_name, baseline_result.elapsed_time,
                    current_result.elapsed_time, r)
    ELSE cmp

RECURSIVE ComparedFrom(_, _, _, _, _)
\* for test_name, current_result in current_tests.items(), from the i-th
ComparedFrom(cmp, baseline_tests, current_tests, i, r) ==
    IF i > Len(current_tests) THEN cmp
    ELSE ComparedFrom(Compared(cmp, current_tests[i].test,
                               TestsGet(baseline_tests, current_tests[i].test),
                               current_tests[i].result, r),
                      baseline_tests, current_tests, i + 1, r)

\* the comparison dict; summary is {} until the totals are assigned
Comparison(regressions, improvements, totals, total_regressions, total_improvements) ==
    [regressions |-> regressions, improvements |-> improvements,
     summary |-> [keys |-> IF totals
                           THEN {"total_regressions", "total_improvements"}
                           ELSE {},
                  total_regressions |-> total_regressions,
                  total_improvements |-> total_improvements]]

\* comparison['summary'] = {...}
Summarised(cmp) ==
    Comparison(cmp.regressions, cmp.improvements, TRUE,
               Len(cmp.regressions), Len(cmp.improvements))

\* compare_metrics(baseline, current)
compare_metrics(base, cur, r) ==
    IF NotPerf(base) \/ NotPerf(cur)
    THEN Comparison(<<>>, <<>>, FALSE, 0, 0)
    ELSE Summarised(ComparedFrom(Comparison(<<>>, <<>>, FALSE, 0, 0),
                                 TestsOf(base), TestsOf(cur), 1, r))

\* summary.get(key, 0)
SummaryGet(summary, key) == IF key \in summary.keys THEN summary[key] ELSE 0

\* create_performance_comment(results): what the comment shows
create_performance_comment(res) ==
    [total_regressions |-> SummaryGet(res.summary, "total_regressions"),
     total_improvements |-> SummaryGet(res.summary, "total_improvements"),
     regressions |-> [i \in 1..Len(res.regressions) |-> res.regressions[i].test],
     improvements |-> [i \in 1..Len(res.improvements) |-> res.improvements[i].test],
     no_changes |-> res.regressions = <<>> /\ res.improvements = <<>>]

\* the times of the model: 1.25 and 1.375 are binary fractions, 0.9 and 1.1
\* are not
Times == {0, 900, 1000, 1100, 1250, 1375, 2000}

\* the results a test may have: one time, both times, no time, nothing
Results ==
    {Result({"avg_time"}, t, 0) : t \in Times}
    \cup {Result({"elapsed_time"}, 0, t) : t \in Times}
    \cup {Result({"avg_time", "elapsed_time"}, 1000, t) : t \in {1000, 2000}}
    \cup {Result({"success"}, 0, 0), Result({}, 0, 0)}

\* the results of a second test
OtherResults == {Result({"avg_time"}, t, 0) : t \in {1000, 2000}}

\* 'tests' dicts of up to two tests, in one insertion order
TestDicts ==
    {<<>>}
    \cup {<<Test("a", x)>> : x \in Results}
    \cup {<<Test("b", y)>> : y \in OtherResults}
    \cup {<<Test("a", x), Test("b", y)>> : x \in Results, y \in OtherResults}

\* the same with the other insertion order
TestDictsAnyOrder ==
    TestDicts
    \cup {<<Test("b", y), Test("a", x)>> : x \in Results, y \in OtherResults}

\* what a performance file may hold
PerfFiles(dicts) ==
    {PerfNone, PerfData(FALSE, {}, <<>>), PerfData(FALSE, {"timestamp"}, <<>>)}
    \cup {PerfData(FALSE, {"timestamp", "tests"}, t) : t \in dicts}

Roundings == {-1, 0, 1}

NoComparison == "none"

InitCompare ==
    /\ ValidatorIdle
    /\ pc = "compare" /\ out = <<>> /\ exitStatus = -1
    /\ baseline \in PerfFiles(TestDicts)
    /\ current \in PerfFiles(TestDictsAnyOrder)
    /\ rounding \in Roundings
    /\ comparison = NoComparison
    /\ comment = "idle"
    /\ inspect_data = "idle" /\ results = "idle"
    /\ script = "idle" /\ environ = "idle" /\ sent = <<>>

\* ci_compare_performance.py, main: comparison = compare_metrics(...)
CompareMetrics ==
    /\ pc = "compare"
    /\ comparison' = compare_metrics(baseline, current, rounding)
    /\ pc' = "comment"
    /\ UNCHANGED <<out, exitStatus, baseline, current, rounding, comment,
                   inspect_data, results, script, environ, sent, validatorVars>>

\* ci_post_performance_comment.py, main: comment =
\* create_performance_comment(results)
CreatePerformanceComment ==
    /\ pc = "comment"
    /\ comment' = create_performance_comment(comparison)
    /\ pc' = "done"
    /\ UNCHANGED <<out, exitStatus, baseline, current, rounding, comparison,
                   inspect_data, results, script, environ, sent, validatorVars>>

NextCompare == CompareMetrics \/ CreatePerformanceComment

SpecCompare == InitCompare /\ [][NextCompare]_vars


----------------------------------------------------------------------------
(* scripts/ci_docker_security_scan.py: analyze_docker_image.  A string the  *)
(* function takes apart (an item of Env, a pattern) is held as the tuple of *)
(* its characters.                                                          *)

\* longest Env list
MaxEnv == 2

LowerCase == <<"a", "b", "c", "d", "e", "f", "g", "h", "i", "j", "k", "l", "m",
               "n", "o", "p", "q", "r", "s", "t", "u", "v", "w", "x", "y", "z">>
UpperCase == <<"A", "B", "C", "D", "E", "F", "G", "H", "I", "J", "K", "L", "M",
               "N", "O", "P", "Q", "R", "S", "T", "U", "V", "W", "X", "Y", "Z">>

\* str.upper()
Upper(chars) ==
    [i \in 1..Len(chars) |->
        IF \E j \in 1..Len(LowerCase) : LowerCase[j] = chars[i]
        THEN UpperCase[CHOOSE j \in 1..Len(LowerCase) : LowerCase[j] = chars[i]]
        ELSE chars[i]]

\* pattern in text
Contains(pattern, text) ==
    \E i \in 0..(Len(text) - Len(pattern)) :
        SubSeq(text, i + 1, i + Len(pattern)) = pattern

\* '=' in env
HasEquals(env) == \E i \in 1..Len(env) : env[i] = "="

\* env.split('=')[0]
VarName(env) ==
    IF HasEquals(env)
    THEN SubSeq(env, 1, (CHOOSE i \in 1..Len(env) :
                            env[i] = "=" /\ \A j \in 1..(i - 1) : env[j] # "=") - 1)
    ELSE env

RECURSIVE Str(_)
\* the string of a tuple of characters
Str(chars) == IF chars = <<>> THEN "" ELSE chars[1] \o Str(Tail(chars))

\* sensitive_patterns
sensitive_patterns ==
    <<<<"P", "A", "S", "S", "W", "O", "R", "D">>, <<"S", "E", "C", "R", "E", "T">>,
      <<"T", "O", "K", "E", "N">>, <<"K", "E", "Y">>,
      <<"A", "P", "I", "_", "K", "E", "Y">>>>

\* any(pattern in var_name.upper() for pattern in sensitive_patterns)
Sensitive(var_name) ==
    \E p \in 1..Len(sensitive_patterns) :
        Contains(sensitive_patterns[p], Upper(var_name))

Warning(severity, message, recommendation) ==
    [severity |-> severity, message |-> message, recommendation |-> recommendation]

\* an item of results['info']; recommendation is "" where the dict has none
Info(message, recommendation) == [message |-> message, recommendation |-> recommendation]

SecretWarning(var_name) ==
    Warning("high", "Potentially sensitive environment variable: " \o Str(var_name),
            "Avoid hardcoding secrets in images")

RECURSIVE EnvWarnings(_, _)
\* for env in env_vars: the warnings appended, from the i-th item
EnvWarnings(env_vars, i) ==
    IF i > Len(env_vars) THEN <<>>
    ELSE IF Sensitive(VarName(env_vars[i]))
    THEN <<SecretWarning(VarName(env_vars[i]))>> \o EnvWarnings(env_vars, i + 1)
    ELSE EnvWarnings(env_vars, i + 1)

\* not any(pattern in var_name.upper() for env in env_vars for pattern in
\* sensitive_patterns if '=' in env): var_name is the function's variable,
\* which the loop above has left at the name of the last item
NoSecretsCheck(env_vars) ==
    ~\E i \in 1..Len(env_vars) :
        HasEquals(env_vars[i]) /\ Sensitive(VarName(env_vars[Len(env_vars)]))

\* ", ".join(d.keys())
JoinKeys(keys) == Join(keys, ", ")

\* size_mb > 500, for size_mb = image_size / (1024 * 1024)
Large(image_size) == image_size > 500 * (1024 * 1024)

\* size_mb to one decimal, in tenths of a MB: f'{size_mb:.1f}' and
\* round(size_mb, 1), which agree but where size_mb lies halfway; no size of
\* the model does
TenthsOfMb(image_size) ==
    (image_size \div (1024 * 1024)) * 10
    + ((image_size % (1024 * 1024)) * 10 + 512 * 1024) \div (1024 * 1024)

\* f'{size_mb:.1f}'
OneDecimal(tenths) == Digits(tenths \div 10) \o "." \o Digit(tenths % 10)

\* config.get('User') where the key is missing
NoUser == "None"

\* the Config of an image: User (NoUser when missing), the keys of
\* ExposedPorts and of Volumes, Env, and whether there is a Healthcheck
Config(user, ports, env, volumes, healthcheck) ==
    [User |-> user, ExposedPorts |-> ports, Env |-> env, Volumes |-> volumes,
     Healthcheck |-> healthcheck]

\* docker inspect output: the image's Config and Size, in a list or alone
InspectData(is_list, config, size) == [is_list |-> is_list, Config |-> config, Size |-> size]

\* the warnings of analyze_docker_image, in the order appended
Warnings(config, image_size) ==
    (IF config.User = "" \/ config.User = "root"
     THEN <<Warning("medium", "Container runs as root user",
                    "Create and use a non-root user in Dockerfile")>>
     ELSE <<>>)
    \o EnvWarnings(config.Env, 1)
    \o (IF Large(image_size)
        THEN <<Warning("low",
                       "Large image size: " \o OneDecimal(TenthsOfMb(image_size)) \o " MB",
                       "Consider using multi-stage builds to reduce size")>>
        ELSE <<>>)

\* results['info'], in the order appended
Infos(config) ==
    (IF config.ExposedPorts # <<>>
     THEN <<Info("Exposed ports: " \o JoinKeys(config.ExposedPorts), "")>>
     ELSE <<>>)
    \o (IF config.Volumes # <<>>
        THEN <<Info("Defined volumes: " \o JoinKeys(config.Volumes), "")>>
        ELSE <<>>)
    \o (IF ~config.Healthcheck
        THEN <<Info("No healthcheck defined", "Consider adding HEALTHCHECK instruction")>>
        ELSE <<>>)

\* results['passed_checks'], in the order appended
PassedChecks(config, image_size) ==
    (IF config.User = "" \/ config.User = "root" THEN <<>>
     ELSE <<"Running as non-root user">>)
    \o (IF NoSecretsCheck(config.Env)
        THEN <<"No obvious secrets in environment variables">>
        ELSE <<>>)
    \o (IF config.Healthcheck THEN <<"Healthcheck configured">> ELSE <<>>)
    \o (IF Large(image_size) THEN <<>>
        ELSE <<"Reasonable image size: " \o OneDecimal(TenthsOfMb(image_size)) \o " MB">>)

\* results with its summary
WithSummary(warnings, info, passed_checks, image_size) ==
    [warnings |-> warnings, info |-> info, passed_checks |-> passed_checks,
     summary |-> [total_warnings |-> Len(warnings), total_info |-> Len(info),
                  total_passed |-> Len(passed_checks),
                  image_size_mb |-> TenthsOfMb(image_size)]]

\* analyze_docker_image(inspect_data)
analyze_docker_image(inspect) ==
    WithSummary(Warnings(inspect.Config, inspect.Size), Infos(inspect.Config),
                PassedChecks(inspect.Config, inspect.Size), inspect.Size)

\* items of Env: PATH=/, KEY=1, token=x, A=KEY, and SECRET and HOME, which
\* have no '='
EnvItems ==
    {<<"P", "A", "T", "H", "=", "/">>, <<"K", "E", "Y", "=", "1">>,
     <<"t", "o", "k", "e", "n", "=", "x">>, <<"A", "=", "K", "E", "Y">>,
     <<"S", "E", "C", "R", "E", "T">>, <<"H", "O", "M", "E">>}

\* the Env lists of up to MaxEnv items
EnvLists == UNION {[1..n -> EnvItems] : n \in 0..MaxEnv}

Users == {NoUser, "", "root", "app"}

\* 500 MB and one byte more
ImageSizes == {500 * (1024 * 1024), 500 * (1024 * 1024) + 1}

Configs ==
    {Config(u, p, e, v, h) :
        u \in Users, p \in {<<>>, <<"80/tcp">>}, e \in EnvLists,
        v \in {<<>>, <<"/data">>}, h \in BOOLEAN}

NoResults == "none"

InitScan ==
    /\ ValidatorIdle
    /\ pc = "scan" /\ out = <<>> /\ exitStatus = -1
    /\ inspect_data \in {InspectData(l, c, s) :
                            l \in BOOLEAN, c \in Configs, s \in ImageSizes}
    /\ results = NoResults
    /\ baseline = "idle" /\ current = "idle" /\ rounding = 0
    /\ comparison = "idle" /\ comment = "idle"
    /\ script = "idle" /\ environ = "idle" /\ sent = <<>>

\* ci_docker_security_scan.py, main: results = analyze_docker_image(...)
AnalyzeDockerImage ==
    /\ pc = "scan"
    /\ results' = analyze_docker_image(inspect_data)
    /\ pc' = "done"
    /\ exitStatus' = 0
    /\ UNCHANGED <<out, baseline, current, rounding, comparison, comment,
                   inspect_data, script, environ, sent, validatorVars>>

NextScan == AnalyzeDockerImage

SpecScan == InitScan /\ [][NextScan]_vars


----------------------------------------------------------------------------
(* scripts/ci_post_*_comment.py: main and post_gitlab_comment of the five   *)
(* scripts that post a comment on a merge request.                          *)

\* the scripts, by the part of the name that tells them apart
PostScripts == {"mr", "clippy", "coverage", "summary", "performance"}

\* the scripts whose main parses its input file as JSON
JsonScripts == {"mr", "coverage", "performance"}

\* os.getenv(name) of a variable that is not set
Unset == "None"

\* os.environ, as far as the scripts read it
Environ(gitlab_token, job_token, project_id, mr_iid, server_url) ==
    [GITLAB_TOKEN |-> gitlab_token, CI_JOB_TOKEN |-> job_token,
     CI_PROJECT_ID |-> project_id, CI_MERGE_REQUEST_IID |-> mr_iid,
     CI_SERVER_URL |-> server_url]

\* the truth value of what os.getenv returned: None and '' are falsy
Set(v) == v # Unset /\ v # ""

\* a or b, of two values os.getenv returned
Or(a, b) == IF Set(a) THEN a ELSE b

\* os.getenv(name, default)
GetenvDefault(v, default) == IF v = Unset THEN default ELSE v

\* what requests.post and response.raise_for_status can come to: a
\* response with a success status, or a RequestException
HttpOutcomes == {"ok", "HTTPError", "ConnectionError", "Timeout"}

\* the beginning of the line a script prints when its comment is posted
PostedLine(scr) ==
    CASE scr = "mr" -> "Comment posted successfully to MR !"
      [] scr = "clippy" -> "Clippy comment posted successfully to MR !"
      [] scr = "coverage" -> "Coverage comment posted successfully to MR !"
      [] scr = "summary" -> "Summary comment posted successfully to MR !"
      [] OTHER -> "Performance comment posted successfully to MR !"

\* requests.post(api_url, headers=headers, json=data, timeout=30), with the
\* merge request the url names
Request(gitlab_url, project_id, mr_iid, gitlab_token, body) ==
    [url |-> gitlab_url \o "/api/v4/projects/" \o project_id
                \o "/merge_requests/" \o mr_iid \o "/notes",
     mr_iid |-> mr_iid, token |-> gitlab_token, body |-> body]

\* what a call of post_gitlab_comment comes to: the requests sent, the
\* lines printed, and whether it returned or left by sys.exit(1)
Posted(request, printed, raised) ==
    [request |-> request, printed |-> printed, raised |-> raised]

\* the except clause of ci_post_mr_comment.py
ExitsOnFailure(scr) == scr = "mr"

\* the try statement of post_gitlab_comment
Requested(scr, request, http) ==
    IF http = "ok"
    THEN Posted(<<request>>, <<PostedLine(scr) \o request.mr_iid>>, "")
    ELSE Posted(<<request>>, <<"Failed to post comment: " \o http>>,
                IF ExitsOnFailure(scr) THEN "SystemExit(1)" ELSE "")

\* post_gitlab_comment(comment) of the script scr
post_gitlab_comment(scr, env, body, http) ==
    IF ~(Set(Or(env.GITLAB_TOKEN, env.CI_JOB_TOKEN)) /\ Set(env.CI_PROJECT_ID)
         /\ Set(env.CI_MERGE_REQUEST_IID))
    THEN Posted(<<>>, <<"Not a merge request or missing credentials. Skipping comment.">>, "")
    ELSE Requested(scr,
                   Request(GetenvDefault(env.CI_SERVER_URL, "https://gitlab.com"),
                           env.CI_PROJECT_ID, env.CI_MERGE_REQUEST_IID,
                           Or(env.GITLAB_TOKEN, env.CI_JOB_TOKEN), body),
                   http)

NoComment == "none"

\* the comment main has made of its input
CommentOf(scr) ==
    CASE scr = "mr" -> "create_test_comment(results)"
      [] scr = "clippy" -> "create_clippy_comment(results)"
      [] scr = "coverage" -> "create_coverage_comment(results)"
      [] scr = "summary" -> "f.read()"
      [] OTHER -> "create_performance_comment(results)"

Environs ==
    {Environ(g, j, p, m, u) :
        g \in {Unset, "glpat"}, j \in {Unset, "", "job"}, p \in {Unset, "", "42"},
        m \in {Unset, "", "7"}, u \in {Unset, "https://gitlab.example.com"}}

InitPost ==
    /\ ValidatorIdle
    /\ pc = "main" /\ out = <<>> /\ exitStatus = -1
    /\ script \in PostScripts
    /\ environ \in Environs
    /\ comment = NoComment
    /\ sent = <<>>
    /\ baseline = "idle" /\ current = "idle" /\ rounding = 0
    /\ comparison = "idle" /\ inspect_data = "idle" /\ results = "idle"

\* main up to the call of post_gitlab_comment: the usage error, the error
\* of reading the input file, and the comment made of the input; the
\* clippy script posts nothing when there is no warning and no error
ReadInput ==
    /\ pc = "main"
    /\ \E argv \in BOOLEAN, file \in {"ok", "NotFound", "ParseError"},
          findings \in BOOLEAN :
        /\ file = "ParseError" => script \in JsonScripts
        /\ IF ~argv
           THEN /\ out' = <<"Usage: post_" \o script \o "_comment.py">>
                /\ Exit(1)
                /\ UNCHANGED comment
           ELSE IF file # "ok"
           THEN /\ out' = <<"Error reading file: " \o file>>
                /\ Exit(1)
                /\ UNCHANGED comment
           ELSE IF script = "clippy" /\ ~findings
           THEN /\ out' = <<"No Clippy warnings or errors found. Skipping comment.">>
                /\ Exit(0)
                /\ UNCHANGED comment
           ELSE /\ comment' = CommentOf(script)
                /\ pc' = "post"
                /\ UNCHANGED <<out, exitStatus>>
    /\ UNCHANGED <<baseline, current, rounding, comparison, inspect_data, results,
                   script, environ, sent, validatorVars>>

\* main: post_gitlab_comment(comment), and the end of the script
PostComment ==
    /\ pc = "post"
    /\ \E http \in HttpOutcomes :
        \E r \in {post_gitlab_comment(script, environ, comment, http)} :
            /\ sent' = sent \o r.request
            /\ out' = out \o r.printed
            /\ Exit(IF r.raised = "" THEN 0 ELSE 1)
    /\ UNCHANGED <<baseline, current, rounding, comparison, comment, inspect_data,
                   results, script, environ, validatorVars>>

NextPost == ReadInput \/ PostComment

SpecPost == InitPost /\ [][NextPost]_vars


----------------------------------------------------------------------------
(* Properties of a run of main (Spec) *)

Ran(stage) == \E i \in 1..Len(stages) : stages[i] = stage

Printed(line) == \E i \in 1..Len(out) : out[i] = line

C2_InferredPath ==
    (Ran("resolve") /\ schema_file = NoPath) =>
        /\ \A i \in 1..(Len(yaml_file) - 1) :
            (yaml_file[i] = "samples" /\ \A j \in 1..(i - 1) : yaml_file[j] # "samples")
            => schema_path = <<"schemas", yaml_file[i + 1],
                               yaml_file[i + 1] \o ".schema.json">>
        /\ (\A i \in 1..Len(yaml_file) : yaml_file[i] # "samples")
            => /\ schema_path = NoPath
               /\ pc = "done" /\ exitStatus = 1
               /\ Printed("Please provide schema file as second argument")

\* the resolver has inferred the schema of category tc from a path that
\* has the anchor in second place
C2_Witness ==
    /\ Ran("resolve") /\ schema_file = NoPath
    /\ Len(yaml_file) = 3 /\ yaml_file[2] = "samples" /\ yaml_file[3] = "tc"
    /\ schema_path = <<"schemas", "tc", "tc.schema.json">>

\* C10: when loading the document fails, the run reports the load error,
\* validate_and_report returns False and validate is not called in that
\* run; a document path that names no file ends the run before any stage.
C10_NoValidationAfterFailedLoad ==
    /\ read \in LoadFailures =>
        /\ ~Ran("validate")
        /\ result = NoOutcome
        /\ ret = "False"
        /\ pc = "done" /\ exitStatus = 1
        /\ \/ read = "NotFound"
              /\ Printed("Error: File '" \o PathStr(yaml_file) \o "' not found")
           \/ read = "ParseError" /\ Printed("Error parsing YAML")
           \/ read = "ReadError" /\ Printed("Error reading YAML file")
        /\ ~Printed("Error: No data loaded. Call load_yaml() first.")
    /\ Ran("validate") => read = "ok"
    /\ (pc = "done" /\ stages = <<>>) => (read = "" /\ result = NoOutcome)

\* a run whose document is malformed YAML has ended
C10_Witness ==
    read = "ParseError" /\ pc = "done" /\ stages[Len(stages)] = "load_yaml"

\* the stages of a run, in the order main goes through them
StageOrder == <<"resolve", "load_schema", "load_yaml", "validate">>

IsPrefix(s, full) == Len(s) <= Len(full) /\ \A i \in 1..Len(s) : s[i] = full[i]

HasAnchor(parts) == \E i \in 1..Len(parts) : parts[i] = "samples"

\* C11: when main is given no schema path and the document path has no
\* anchor, the run ends with the two lines of the usage error and exit
\* status 1, and it has opened no file, loaded no schema and no document,
\* and validated nothing.
C11_UsageErrorBeforeAnyLoad ==
    (Ran("resolve") /\ schema_file = NoPath /\ ~HasAnchor(yaml_file)) =>
        /\ pc = "done" /\ exitStatus = 1
        /\ out = <<"Error: Could not infer schema path for '"
                    \o PathStr(yaml_file) \o "'",
                   "Please provide schema file as second argument">>
        /\ stages = <<"resolve">>
        /\ opened = <<>>
        /\ schema = NoSchema /\ data = VNull
        /\ read = "" /\ result = NoOutcome /\ ret = "None"

\* a run on tc/tc without a schema argument has ended in the usage error
C11_Witness ==
    /\ yaml_file = <<"tc", "tc">> /\ schema_file = NoPath
    /\ pc = "done" /\ exitStatus = 1 /\ stages = <<"resolve">>
    /\ Printed("Please provide schema file as second argument")

\* C12: when main is given a schema path, that path is the one main goes
\* on with and the first file it opens, the schema validated against is
\* what that file holds, and infer_schema_path has no effect on the run,
\* even if the document path has the anchor (or ends with it).
C12_ExplicitSchemaGoverns ==
    (Ran("resolve") /\ schema_file # NoPath) =>
        /\ schema_path = schema_file
        /\ stages = <<"resolve">> => (pc = "load_schema" /\ out = <<>>)
        /\ Ran("load_schema") =>
            /\ opened[1].path = schema_file
            /\ opened[1].status = "ok" <=> schema \in RunSchemas
        /\ \A i \in 1..Len(out) :
            /\ out[i] # "Traceback: IndexError"
            /\ out[i] # "Please provide schema file as second argument"

\* a document below samples/tc has been found valid against the schema
\* given on the command line
C12_Witness ==
    /\ schema_file = <<"custom.schema.json">>
    /\ yaml_file = <<"samples", "tc", "tc">>
    /\ pc = "done" /\ result.verdict = "Valid"
    /\ opened[1] = [path |-> schema_file, status |-> "ok"]

\* C15: load_json_schema succeeds, with what the file holds, only for a
\* file that exists and parses; for a file that is missing or malformed it
\* prints its error and returns (False, None) without raising, and the run
\* ends with exit status 1 and the document is not opened.
C15_SchemaLoadFailure ==
    Ran("load_schema") =>
        /\ opened[1].path = schema_path
        /\ opened[1].status = "ok" => (schema \in RunSchemas /\ pc # "load_schema")
        /\ opened[1].status # "ok" =>
            /\ schema = NoSchema
            /\ pc = "done" /\ exitStatus = 1
            /\ stages = <<"resolve", "load_schema">>
            /\ Len(opened) = 1
            /\ data = VNull /\ read = "" /\ result = NoOutcome
            /\ out = load_json_schema(schema_path, File(opened[1].status, NoSchema)).printed
            /\ Len(out) = 1 /\ out[1] # "Traceback: IndexError"
        /\ \A f \in RunSchemaFiles :
            LET r == load_json_schema(schema_path, f)
            IN /\ r.success <=> f.status = "ok"
               /\ r.schema = IF f.status = "ok" THEN f.value ELSE NoSchema

\* a run whose schema file is malformed JSON has ended
C15_Witness ==
    /\ pc = "done" /\ exitStatus = 1
    /\ opened = <<[path |-> schema_path, status |-> "ParseError"]>>
    /\ out = <<"Error parsing JSON schema">>

\* C16: in every run the stages run at most once and in the order schema
\* resolution, schema load, document load, validation; the first stage that
\* fails is the last one of the run, no file is opened twice, and nothing
\* happens after the run has ended.
C16_StagesOnceInOrder ==
    /\ [](/\ IsPrefix(stages, StageOrder)
          /\ Len(opened) <= 2
          /\ Len(opened) = 2 => opened[1].path = schema_path /\ opened[2].path = yaml_file
          /\ pc = "done" =>
              /\ schema_path = NoPath => Len(stages) <= 1
              /\ (Len(opened) >= 1 /\ opened[1].status # "ok") => Len(stages) = 2
              /\ read \in LoadFailures => Len(stages) = 3
              /\ result # NoOutcome => (Len(stages) = 4 /\ read = "ok")
              /\ exitStatus = 0 => (Len(stages) = 4 /\ result.verdict = "Valid")
          /\ (pc # "done" /\ stages # <<>>) =>
              /\ pc = StageOrder[Len(stages) + 1] \/ (pc = "validate" /\ Len(stages) = 2)
              /\ Len(stages) = 2 => opened[1].status = "ok")
    /\ [][pc # "done"]_vars

\* a run has gone through the four stages and found the document invalid
C16_Witness ==
    /\ pc = "done" /\ stages = StageOrder /\ result.verdict = "Invalid"
    /\ exitStatus = 1

----------------------------------------------------------------------------
(* Properties of the calls on one validator (SpecApi) *)

\* the latest call was validate, on a document that load_yaml had loaded
Validated == read = "ok" /\ stages = <<"validate">>

RECURSIVE Conforms(_, _)
\* JSON Schema's meaning of "the value d satisfies every constraint of s"
Conforms(d, s) ==
    /\ s.bool # "false"
    /\ \A i \in 1..Len(s.kws) :
        LET kw == s.kws[i]
        IN CASE kw.k = "type" -> IsType(d, kw.type)
             [] kw.k = "required" ->
                    d.t = "map" => \A j \in 1..Len(kw.required) : HasKey(d, kw.required[j])
             [] kw.k = "properties" ->
                    d.t = "map" =>
                        \A j \in 1..Len(kw.properties) :
                            HasKey(d, kw.properties[j].key) =>
                                Conforms(Get(d, kw.properties[j].key), kw.properties[j].sub)
             [] kw.k = "allOf" ->
                    \A j \in 1..Len(kw.subschemas) : Conforms(d, kw.subschemas[j])
             [] kw.k = "anyOf" ->
                    \E j \in 1..Len(kw.subschemas) : Conforms(d, kw.subschemas[j])
             [] kw.k = "oneOf" ->
                    Cardinality({j \in 1..Len(kw.subschemas) :
                                    Conforms(d, kw.subschemas[j])}) = 1
             [] kw.k = "not" -> ~Conforms(d, kw.subschemas[1])

\* the keys s lists under required, and the properties it declares
RequiredOf(s) ==
    UNION {{s.kws[i].required[j] : j \in 1..Len(s.kws[i].required)} : i \in 1..Len(s.kws)}

PropertiesOf(s) ==
    UNION {{s.kws[i].properties[j] : j \in 1..Len(s.kws[i].properties)} :
            i \in 1..Len(s.kws)}

\* d has a value under pr.key that is not of the type pr declares
WrongType(d, pr) ==
    /\ HasKey(d, pr.key)
    /\ \E i \in 1..Len(pr.sub.kws) :
        pr.sub.kws[i].k = "type" /\ ~IsType(Get(d, pr.key), pr.sub.kws[i].type)

\* C3: for every document that loads, the empty mapping, the empty
\* sequence, null, 0, false and the empty string included, validate returns
\* True whenever the document satisfies every constraint of the schema and
\* reports a failure only for a violated constraint or a defective schema.
C3_OutcomeFromPairAlone ==
    Validated =>
        /\ (CheckSchema(schema) /\ Conforms(data, schema))
            => (ret = "True" /\ result.verdict = "Valid")
        /\ ret = "False" => (~CheckSchema(schema) \/ ~Conforms(data, schema))

C6_IntegerAndNumber ==
    (Validated /\ data.t \in {"int", "float"}) =>
        /\ schema = TypeOnly("number") => ret = "True"
        /\ schema = TypeOnly("integer") => (ret = "True" <=> data.n2 % 2 = 0)

\* C7: a mapping that has every key the schema lists under required, and
\* whose property values are of the types declared under properties, is
\* Valid.
C7_ConformingMappingValid ==
    (Validated /\ data.t = "map" /\ schema \in MappingSchemas
        /\ \A k \in RequiredOf(schema) : HasKey(data, k)
        /\ \A pr \in PropertiesOf(schema) : ~WrongType(data, pr))
    => (ret = "True" /\ result.verdict = "Valid")

\* C8: a mapping that lacks a key the schema lists under required is
\* Invalid, with the violation at the mapping node (empty failure path,
\* printed as root) and the schema path [required].
C8_MissingRequiredAtRoot ==
    (Validated /\ data.t = "map" /\ schema \in MappingSchemas
        /\ \E k \in RequiredOf(schema) : ~HasKey(data, k))
    => /\ result.verdict = "Invalid"
       /\ result.path = <<>>
       /\ result.schema_path = <<"required">>
       /\ Printed("Failed at: root")
       /\ Printed("Schema path: required")

C13_SchemaErrorForEveryDocument ==
    (Validated /\ ~CheckSchema(schema)) =>
        /\ result.verdict = "SchemaError"
        /\ ret = "False"
        /\ out = <<"Schema Error: " \o result.message>>

\* C14, as stated: on every Invalid outcome the report has the message,
\* the failure path (root when empty) and the schema path, rendered as
\* root when it is empty.
C14_SchemaPathRootWhenEmpty ==
    (Validated /\ result.verdict = "Invalid") =>
        /\ Printed("Validation Error: " \o result.message)
        /\ Printed("Failed at: " \o (IF result.path # <<>>
                                      THEN Join(result.path, " -> ") ELSE "root"))
        /\ Printed("Schema path: " \o (IF result.schema_path # <<>>
                                        THEN Join(result.schema_path, " -> ")
                                        ELSE "root"))

\* C14, amended: on every Invalid outcome the report is the line of the
\* message, the line of the failure path (its segments in order, root when
\* it is empty) and, only when the schema path is not empty, the line of
\* the schema path (its segments in order); for an empty schema path no
\* schema path line is printed.
C14_ViolationReport ==
    (Validated /\ result.verdict = "Invalid") =>
        /\ out[1] = "Validation Error: " \o result.message
        /\ out[2] = "Failed at: " \o (IF result.path # <<>>
                                       THEN Join(result.path, " -> ") ELSE "root")
        /\ result.schema_path # <<>> =>
            /\ Len(out) = 3
            /\ out[3] = "Schema path: " \o Join(result.schema_path, " -> ")
        /\ result.schema_path = <<>> => Len(out) = 2

\* the document 3 has been rejected by the schema false: two lines, the
\* failure at root and no schema path
C14_Witness ==
    /\ Validated /\ schema = SFalse /\ data = VInt(3)
    /\ result.verdict = "Invalid" /\ result.schema_path = <<>>
    /\ out = <<"Validation Error: False schema does not allow 3", "Failed at: root">>

\* C20: a call of validate, whatever it finds, leaves the validator's
\* document, its schema and its document path as they were before the call.
C20_ValidateReadOnly ==
    [][stages' = <<"validate">> =>
        (data' = data /\ schema' = schema /\ yaml_file' = yaml_file)]_vars

\* validate has found the schema of a loaded document defective
C20_Witness ==
    /\ Validated /\ Truthy(data) /\ data.t = "map"
    /\ result.verdict = "SchemaError" /\ ret = "False"

----------------------------------------------------------------------------
(* Properties of two validators used side by side (SpecTwo) *)

\* what validate_and_report of validator i gives when nothing else runs
Alone(i) ==
    validate_and_report(NewValidator(TwoPaths[i], validators[i].schema_object),
                        validators[i].doc, tieBreak)

\* C17: for every interleaving of the steps of two validators that work on
\* different document/schema pairs, what each validator finds and returns,
\* and the document and schema it holds afterwards, are what it finds,
\* returns and holds when it runs alone.
C17_OutcomeAsAlone ==
    \A i \in ValidatorIds :
        LET v == validators[i]
        IN /\ v.at = "done" =>
                /\ v.found = Alone(i).found
                /\ (v.ret = "True") = Alone(i).ret
                /\ v.self = Alone(i).self
           /\ v.self.schema = v.schema_object
           /\ v.self.yaml_file = TwoPaths[i]
           /\ v.at = "new" => v.self.data = VNull

\* the first validator started first and found its document valid, the
\* second one loaded and rejected its document in between and ended last
C17_Witness ==
    /\ validators[1].at = "done" /\ validators[2].at = "done"
    /\ validators[1].found.verdict = "Valid"
    /\ validators[2].found.verdict = "Invalid"
    /\ out[1] = "Validating: tc/a.yml" /\ out[3] = "Validating: tc/b.yml"
    /\ out[Len(out)] = "Validation failed"

----------------------------------------------------------------------------
(* Properties of validation against schemas with combinators               *)
(* (SpecCombinators)                                                       *)

RECURSIVE NodeExists(_, _)
\* following the keys of p from the value d succeeds
NodeExists(d, p) ==
    \/ p = <<>>
    \/ /\ d.t = "map" /\ HasKey(d, Head(p))
       /\ NodeExists(Get(d, Head(p)), Tail(p))

RECURSIVE ConstraintExists(_, _)
\* following the keywords, property names and branch indices of sp from
\* the schema s succeeds
ConstraintExists(s, sp) ==
    \/ sp = <<>>
    \/ \E i \in 1..Len(s.kws) :
        LET kw == s.kws[i]
        IN /\ kw.k = Head(sp)
           /\ \/ Len(sp) = 1
              \/ /\ kw.k = "properties"
                 /\ \E j \in 1..Len(kw.properties) :
                        /\ kw.properties[j].key = sp[2]
                        /\ ConstraintExists(kw.properties[j].sub, SubSeq(sp, 3, Len(sp)))
              \/ /\ kw.k \in {"allOf", "anyOf", "oneOf"}
                 /\ \E j \in 1..Len(kw.subschemas) :
                        /\ Digits(j - 1) = sp[2]
                        /\ ConstraintExists(kw.subschemas[j], SubSeq(sp, 3, Len(sp)))
              \/ /\ kw.k = "not"
                 /\ ConstraintExists(kw.subschemas[1], Tail(sp))

\* C18: for every Invalid outcome the failure path reported denotes a node
\* of the document (following its keys from the root succeeds) and the
\* schema path reported denotes a constraint of the schema.
C18_ReportedPathsExist ==
    (Validated /\ result.verdict = "Invalid") =>
        /\ NodeExists(data, result.path)
        /\ ConstraintExists(schema, result.schema_path)

\* the schema is one combinator over the branches bs
IsCombinator(s, k) == Len(s.kws) = 1 /\ s.kws[1].k = k

Passing(d, s) ==
    {j \in 1..Len(s.kws[1].subschemas) : Conforms(d, s.kws[1].subschemas[j])}

\* C19: for every document, validate finds it valid against allOf iff it
\* satisfies every branch, against anyOf iff it satisfies at least one
\* branch, against oneOf iff it satisfies exactly one branch, and against
\* not iff it does not satisfy the subschema.
C19_CombinatorSemantics ==
    (Validated /\ CheckSchema(schema)) =>
        /\ IsCombinator(schema, "allOf") =>
            (ret = "True" <=> Cardinality(Passing(data, schema))
                                = Len(schema.kws[1].subschemas))
        /\ IsCombinator(schema, "anyOf") =>
            (ret = "True" <=> Cardinality(Passing(data, schema)) >= 1)
        /\ IsCombinator(schema, "oneOf") =>
            (ret = "True" <=> Cardinality(Passing(data, schema)) = 1)
        /\ IsCombinator(schema, "not") =>
            (ret = "True" <=> Cardinality(Passing(data, schema)) = 0)

----------------------------------------------------------------------------

\* C21: infer_schema_path is total: for every document path, also one that
\* ends with the anchor, it returns a schema path or None and raises
\* nothing, so a run given no schema never ends in a traceback.
C21_InferTotal ==
    (Ran("resolve") /\ schema_file = NoPath) =>
        /\ infer_schema_path(yaml_file).raised = ""
        /\ ~Printed("Traceback: IndexError")

\* the conventional schema path of a category
Conventional(category) == <<"schemas", category, category \o ".schema.json">>

FirstAnchor(parts) ==
    CHOOSE i \in 1..Len(parts) :
        parts[i] = "samples" /\ \A j \in 1..(i - 1) : parts[j] # "samples"

\* C23: the path the resolver returns is fixed by the components of the
\* document path: it is the conventional path of the category, returned
\* before any file is opened and whatever the file system then holds there;
\* a missing inferred schema is found by load_json_schema, which prints
\* that the schema file is not found, and the run exits 1.
C23_ResolverIgnoresFileSystem ==
    (Ran("resolve") /\ schema_file = NoPath /\ HasAnchor(yaml_file)
        /\ FirstAnchor(yaml_file) < Len(yaml_file)) =>
        /\ schema_path = Conventional(yaml_file[FirstAnchor(yaml_file) + 1])
        /\ stages = <<"resolve">> => (opened = <<>> /\ out = <<>> /\ pc = "load_schema")
        /\ Ran("load_schema") =>
            /\ opened[1].path = schema_path
            /\ opened[1].status = "NotFound" =>
                /\ out = <<"Error: Schema file '" \o PathStr(schema_path) \o "' not found">>
                /\ pc = "done" /\ exitStatus = 1
                /\ stages = <<"resolve", "load_schema">>
                /\ Len(opened) = 1

\* the schema inferred for samples/tc is missing and the run has ended
C23_Witness ==
    /\ yaml_file = <<"samples", "tc">> /\ schema_file = NoPath
    /\ schema_path = <<"schemas", "tc", "tc.schema.json">>
    /\ opened = <<[path |-> schema_path, status |-> "NotFound"]>>
    /\ out = <<"Error: Schema file 'schemas/tc/tc.schema.json' not found">>
    /\ pc = "done" /\ exitStatus = 1

\* the number of anchors of a path
Anchors(parts) == Cardinality({i \in 1..Len(parts) : parts[i] = "samples"})

\* C24: for a document path that has the anchor more than once the
\* category is the component after the first anchor; a component that only
\* contains the anchor's name (samples2) is no anchor: a path that has only
\* components of that kind has no schema inferred, and one that has them
\* beside an anchor has the category after the anchor.
C24_LeftmostAnchor ==
    (Ran("resolve") /\ schema_file = NoPath) =>
        /\ Anchors(yaml_file) > 1 =>
            /\ schema_path = Conventional(yaml_file[FirstAnchor(yaml_file) + 1])
            /\ ~Printed("Traceback: IndexError")
        /\ (Anchors(yaml_file) = 0 /\ \E i \in 1..Len(yaml_file) : yaml_file[i] = "samples2") =>
            /\ schema_path = NoPath
            /\ pc = "done" /\ exitStatus = 1
            /\ Printed("Please provide schema file as second argument")
        /\ (Anchors(yaml_file) = 1 /\ FirstAnchor(yaml_file) < Len(yaml_file)
                /\ \E i \in 1..Len(yaml_file) : yaml_file[i] = "samples2") =>
            schema_path = Conventional(yaml_file[FirstAnchor(yaml_file) + 1])

\* the category samples has been inferred from samples/samples/tc, whose
\* last anchor is followed by tc
C24_Witness ==
    /\ yaml_file = <<"samples", "samples", "tc">> /\ schema_file = NoPath
    /\ Ran("resolve")
    /\ schema_path = <<"schemas", "samples", "samples.schema.json">>

\* C25: a call of load_yaml that fails returns False and leaves the held
\* data as it was, and one that succeeds returns True; validate, whenever
\* it hands data to the library, hands it the data held before the call,
\* which is that of the most recent successful load.
C25_DataOnlyFromSuccessfulLoad ==
    [][(stages' = <<"load_yaml">> =>
            /\ read' = "ok" => ret' = "True"
            /\ read' # "ok" => (ret' = "False" /\ data' = data /\ schema' = schema))
       /\ (stages' = <<"validate">> =>
            /\ data' = data
            /\ data = VNull => result'.verdict = "NoData"
            /\ Truthy(data) => result' = JsonschemaValidate(data, schema, tieBreak))]_vars

\* after a successful load and then a failed one, validate has found the
\* document of the successful load valid
C25_Witness ==
    /\ read = "NotFound" /\ stages = <<"validate">>
    /\ data = VMap(<<"name", "age">>, <<Alice, VInt(30)>>)
    /\ result.verdict = "Valid" /\ ret = "True"

----------------------------------------------------------------------------
(* Properties of compare_metrics (SpecCompare) *)

\* the test is an item of a list of metrics
Listed(metrics, test_name) == \E i \in 1..Len(metrics) : metrics[i].test = test_name

\* the test is in the 'tests' of the data
InTests(d, test_name) ==
    ~d.none /\ \E i \in 1..Len(TestsOf(d)) : TestsOf(d)[i].test = test_name

\* the key under which both results of the test hold a time, avg_time
\* before elapsed_time, or "" when there is none
TimeKey(test_name) ==
    LET b == TestsGet(TestsOf(baseline), test_name)
        c == TestsGet(TestsOf(current), test_name)
    IN IF "avg_time" \in b.keys /\ "avg_time" \in c.keys THEN "avg_time"
       ELSE IF "elapsed_time" \in b.keys /\ "elapsed_time" \in c.keys
       THEN "elapsed_time"
       ELSE ""

BaselineTime(test_name) == TestsGet(TestsOf(baseline), test_name)[TimeKey(test_name)]
CurrentTime(test_name) == TestsGet(TestsOf(current), test_name)[TimeKey(test_name)]

\* the test is in both results, with a time in each
Timed(test_name) ==
    /\ InTests(baseline, test_name) /\ InTests(current, test_name)
    /\ TimeKey(test_name) # ""

TestNames == {"a", "b"}

RoundedOff(n, bound, s) ==
    /\ (CurrentTime(n) - BaselineTime(n)) * 100 = bound * BaselineTime(n)
    /\ ~(ExactTime(BaselineTime(n)) /\ ExactTime(CurrentTime(n)))
    /\ rounding = s

----------------------------------------------------------------------------
(* Properties of analyze_docker_image (SpecScan) and of the scripts that    *)
(* post comments (SpecPost)                                                 *)

\* results holds a warning about an environment variable
SecretWarned ==
    \E i \in 1..Len(results.warnings) : results.warnings[i].severity = "high"

\* results holds the passed check of the environment variables
NoSecretsPassed ==
    \E i \in 1..Len(results.passed_checks) :
        results.passed_checks[i] = "No obvious secrets in environment variables"

\* C27: analyze_docker_image records the passed check 'No obvious secrets
\* in environment variables' only when it has recorded no warning about an
\* environment variable, whatever the Env list, and the totals of the
\* summary are the lengths of the three lists.
C27_NoSecretsOnlyWithoutWarning ==
    pc = "done" =>
        /\ NoSecretsPassed => ~SecretWarned
        /\ results.summary.total_warnings = Len(results.warnings)
        /\ results.summary.total_info = Len(results.info)
        /\ results.summary.total_passed = Len(results.passed_checks)

\* the script has ended after a call of post_gitlab_comment
PostCalled == pc = "done" /\ comment # NoComment

\* C28: in each of the scripts post_gitlab_comment sends no request when
\* the token, the project id or the merge request id is missing, and the
\* script ends with status 0 both when posting is skipped and when the
\* request has failed.
C28_PostingBestEffort ==
    PostCalled =>
        /\ ~(Set(Or(environ.GITLAB_TOKEN, environ.CI_JOB_TOKEN))
             /\ Set(environ.CI_PROJECT_ID) /\ Set(environ.CI_MERGE_REQUEST_IID))
            => /\ sent = <<>>
               /\ out = <<"Not a merge request or missing credentials. Skipping comment.">>
               /\ exitStatus = 0
        /\ (\E h \in HttpOutcomes \ {"ok"} : out = <<"Failed to post comment: " \o h>>)
            => (Len(sent) = 1 /\ exitStatus = 0)

====
